---------------------------- MODULE Spec2Model ----------------------------
(***************************************************************************)
(* The network layer of coretexpylib: RequestsManager (the transport, with *)
(* its retry on exceptions) and NetworkManagerBase (credentials, the       *)
(* generic operations and their shouldRetry policy).                       *)
(*                                                                         *)
(* One HTTP attempt is one step: an attempt is put on the wire by the      *)
(* action that issues it and is answered by TransportException (the call   *)
(* of requests.Session raises) or by one of the ...Response actions (the   *)
(* server answers).  Everything the code does between two attempts is part *)
(* of the step that receives the answer.                                   *)
(***************************************************************************)
EXTENDS Integers, Sequences, FiniteSets, TLC

\* ------------------------------------------------------------------ bounds
\* tokens the server can issue are 1..MaxToken
MaxToken == 2
\* Basic-auth pairs (username, password) a caller can pass are 1..MaxUser
MaxUser == 1
\* a caller may start a generic operation with retryCount 0..MaxStartRetry
MaxStartRetry == 4
\* the recursion of a generic operation is followed up to this retryCount
MaxDepth == 5
\* chunk sizes 1..MaxSmallChunk and file sizes 0..MaxFileSize are tried next to
\* the sizes around 128 MiB; a session is followed when it has at most
\* MaxChunks chunks; the server assigns the upload ids 1..MaxUploadId
MaxSmallChunk == 2
MaxFileSize == 4
MaxChunks == 3
MaxUploadId == 2
\* between the construction of a session and a read of a chunk the file grows
\* or shrinks by at most MaxDrift bytes
MaxDrift == 1
\* unzip is called at most MaxUnzips times on a sample
MaxUnzips == 3
\* the user adds at most MaxLines lines to the crontab, and scheduleJob is
\* called at most MaxSchedules times
MaxLines == 2
MaxSchedules == 3
\* the model ids a user can type are 1..MaxModelId
MaxModelId == 3
\* initializeNodeConfiguration is called at most MaxInits times, and the node
\* names a user can type are 1..MaxNodeName
MaxInits == 3
MaxNodeName == 3

\* --------------------------------------------------------- program constants
\* None, for a token or for Session.auth
NoToken == 0
NoAuth == 0
\* NetworkManagerBase.MAX_RETRY_COUNT
NM_MAX_RETRY_COUNT == 3
\* RequestsManager.MAX_RETRY_COUNT
RM_MAX_RETRY_COUNT == 3
\* selectModelId: if retryCount >= 3
SELECT_MAX_RETRY_COUNT == 3

\* HttpCode
unauthorized == 401
internalServerError == 500
serviceUnavailable == 503

Tokens == 1..MaxToken
TokenOpt == {NoToken} \cup Tokens
Users == 1..MaxUser

\* the statuses a server answers with
Status == {200, 401, 404, 500, 502, 503}

\* NetworkResponse.hasFailed / isUnauthorized, and requests.Response.ok
\* mutation: every 4xx status counts as unauthorized
isUnauthorizedAny4xx(status) == status \in 400..499

hasFailed(status) == ~(status \in 200..299)
isUnauthorized(status) == status = unauthorized
\* mutation: every response counts as ok
rawOkAlways(status) == TRUE
rawOk(status) == status < 400

GenericOps == {"genericJSONRequest", "genericUpload", "genericDownload", "genericDelete"}
RetryingOps == {"genericJSONRequest", "genericUpload", "genericDownload"}

VARIABLES
    apiToken,        \* NetworkManagerBase._apiToken
    refreshToken,    \* NetworkManagerBase._refreshToken
    sessionAuth,     \* RequestsManager.__session.auth
    dest,            \* what the destination path of genericDownload holds
    pc,              \* "idle", "request", "refresh", "login", "done"
    op,              \* the frame of the running operation
    inflight,        \* the HTTP attempt on the wire
    shouldRetryCall, \* the frame of the last call of shouldRetry
    result,          \* what the operation returned or raised
    nSends,          \* sends of the original request by the operation
    nAttempts,       \* HTTP attempts of the current transport call
    nRefresh,        \* calls of refreshToken() by the operation
    n401,            \* 401 answers to the original request
    n5xx,            \* 500/503 answers to the original request
    nWire,           \* HTTP attempts of the original request on all its sends
    session,         \* the ChunkUploadSession and the position of its run()
    uploads,         \* the chunk uploads run() has started, in order
    threads,         \* the calls that threads make on the client at the same time
    sample,          \* a Sample: its directory, its zip file, its last unzip()
    cron,            \* the crontab of the user and the last scheduleJob()
    select,          \* the position of selectModelId() and what it has done
    node             \* the node, its configuration, the last initializeNodeConfiguration()

vars == <<apiToken, refreshToken, sessionAuth, dest, pc, op, inflight,
          shouldRetryCall, result, nSends, nAttempts, nRefresh, n401, n5xx, nWire,
          session, uploads, threads, sample, cron, select, node>>

\* what lies outside of the networking layer
apart == <<sample, cron, select, node>>

\* what a step of the sequential client leaves alone
upload == <<session, uploads, threads, apart>>

creds == <<apiToken, refreshToken, sessionAuth>>
counters == <<nSends, nAttempts, nRefresh, n401, n5xx, nWire>>

\* nWire is kept only in the runs that start with a count of 0
NotCounted == -1
counted(n) == IF nWire = NotCounted THEN NotCounted ELSE n

\* ------------------------------------------------------------------ values
Header(tok, contentType) == [apiToken |-> tok, contentType |-> contentType]
NoHeaders == [apiToken |-> NoToken, contentType |-> FALSE]

\* the files and parameters of a request that the model follows: those of a
\* chunk upload (the form fields id, start, end and the length of the payload)
NoBody == [id |-> 0, start |-> 0, end |-> 0, length |-> 0]

\* after: the call the client completed just before this one ("reset" or "none")
NoOp == [name |-> "none", method |-> "none", retryCount |-> 0, start |-> 0,
         headers |-> NoHeaders, headersGiven |-> FALSE, after |-> "none",
         endpoint |-> "none", body |-> NoBody]

NoRequest == [purpose |-> "none", via |-> "none", method |-> "none",
              endpoint |-> "none", headers |-> NoHeaders, auth |-> NoAuth,
              retryCount |-> 0, body |-> NoBody]

NoCall == [called |-> FALSE, retryCount |-> 0, status |-> 0,
           refreshCalls |-> 0, refreshStatus |-> 0, returned |-> "none"]

NoResult == [kind |-> "none", of |-> "none", status |-> 0,
             token |-> NoToken, refresh |-> NoToken]

Returned(of, status, tok, rtok) ==
    [kind |-> "response", of |-> of, status |-> status, token |-> tok, refresh |-> rtok]

Raised(kind) ==
    [kind |-> kind, of |-> "none", status |-> 0, token |-> NoToken, refresh |-> NoToken]

\* the threads that call the client at the same time, and a thread that is
\* not in a call: cleared tells that reset() ran during the call and that
\* _apiToken was None when the request on the wire was built
Threads == {1, 2}
NoThread == [pc |-> "idle", name |-> "none", retryCount |-> 0,
             headers |-> NoHeaders, sent |-> NoHeaders,
             reset |-> FALSE, cleared |-> FALSE]

\* a Sample that is neither downloaded nor unzipped, before any unzip()
NoSample == [path |-> "absent", zip |-> "absent", calls |-> 0,
             ignoreCache |-> FALSE, existed |-> FALSE, outcome |-> "none",
             log |-> <<>>, unzips |-> 0, bad |-> 0]

\* a user without crontab, where crontab is installed, before any scheduleJob()
NoCron == [program |-> TRUE, lines |-> <<>>, calls |-> 0, configDir |-> "none",
           script |-> <<>>, outcome |-> "none"]

\* selectModelId() is not running
NoSelect == [pc |-> "idle", retryCount |-> 0, modelId |-> 0, prompted |-> <<>>,
             fetches |-> 0, fetched |-> FALSE, downloads |-> 0, outcome |-> "none"]

\* a node that is neither configured nor running, before any
\* initializeNodeConfiguration()
NoNode == [configured |-> FALSE, running |-> FALSE, saved |-> 0, calls |-> 0,
           log |-> <<>>, wasConfigured |-> FALSE, wasRunning |-> FALSE,
           answer |-> "none", whileRunning |-> FALSE, outcome |-> "none"]

\* no ChunkUploadSession has been constructed
NoSession == [pc |-> "none", chunkSize |-> 0, fileSize |-> 0,
              uploadId |-> 0, sizeSent |-> 0, starts |-> 0, i |-> 0,
              succeeded |-> 0, error |-> "none"]

\* ------------------------------------------------------- NetworkManagerBase
\* _requestHeader: the api-token field is there when _apiToken is not None
requestHeader(tok) == Header(tok, TRUE)

\* the headers of genericUpload: _requestHeader without Content-Type
uploadHeader(tok) == [requestHeader(tok) EXCEPT !.contentType = FALSE]

\* mutation: the refresh request carries the api token
refreshHeaderWithApiToken(tok, rtok) == requestHeader(tok)

\* the headers of refreshToken(): the refresh token replaces the api token
refreshHeader(tok, rtok) ==
    IF rtok # NoToken THEN [requestHeader(tok) EXCEPT !.apiToken = rtok]
    ELSE requestHeader(tok)

\* mutation: the limit is passed before the retries stop
retryLimitReachedAbove(retryCount) == retryCount > NM_MAX_RETRY_COUNT

\* mutation: the limit is tested one call too late
retryLimitReachedLate(retryCount) == retryCount = NM_MAX_RETRY_COUNT + 1

\* shouldRetry, first test: the limit of retries
retryLimitReached(retryCount) == retryCount = NM_MAX_RETRY_COUNT

\* mutation: 503 is not sent again
retriedStatusOnly500(status) == status = internalServerError

\* mutation: every 5xx status is sent again
retriedStatusAny5xx(status) == status >= internalServerError

\* shouldRetry, last return: the statuses that are sent again
retriedStatus(status) ==
    status = internalServerError \/ status = serviceUnavailable

\* mutation: the outcome of the refresh is not looked at
retryAfterRefreshAlways(refreshStatus) == TRUE

\* shouldRetry, the 401 branch: the value returned after refreshToken()
retryAfterRefresh(refreshStatus) == ~hasFailed(refreshStatus)

\* mutation: the response of the refresh is returned in place of the original
returnedResponseOfRefresh(originalStatus, refreshStatus) == refreshStatus

\* the response a generic operation returns once shouldRetry said no:
\* networkResponse, the answer to its own request
returnedResponse(originalStatus, refreshStatus) == originalStatus

\* which generic operations hand their response to shouldRetry
callsShouldRetry(name) == name \in RetryingOps

\* the headers of the recursive call of a generic operation: genericJSONRequest
\* passes its headers on, genericUpload and genericDownload build them again
headersOfRetry(name, headers, tok) ==
    CASE name = "genericJSONRequest" -> headers
      [] name = "genericUpload" -> uploadHeader(tok)
      [] OTHER -> requestHeader(tok)

\* ---------------------------------------------------------- RequestsManager
\* mutation: one retry too many
genericRequestRetriesOnceMore(retryCount) == retryCount <= RM_MAX_RETRY_COUNT

\* the except branches of genericRequest, get and post
genericRequestRetries(retryCount) == retryCount < RM_MAX_RETRY_COUNT
getRetries(retryCount) == retryCount < RM_MAX_RETRY_COUNT
postRetries(retryCount) == retryCount < RM_MAX_RETRY_COUNT

transportRetries(via, retryCount) ==
    CASE via = "genericRequest" -> genericRequestRetries(retryCount)
      [] via = "get" -> getRetries(retryCount)
      [] OTHER -> postRetries(retryCount)

\* a transport call starts: its first attempt goes on the wire
Attempt(purpose, via, method, endpoint, headers, auth) ==
    [purpose |-> purpose, via |-> via, method |-> method, endpoint |-> endpoint,
     headers |-> headers, auth |-> auth, retryCount |-> 0, body |-> NoBody]

viaOf(name) == IF name = "genericDownload" THEN "get" ELSE "genericRequest"

Init ==
    /\ apiToken = NoToken
    /\ refreshToken = NoToken
    /\ sessionAuth = NoAuth
    /\ dest = "absent"
    /\ pc = "idle"
    /\ op = NoOp
    /\ inflight = NoRequest
    /\ shouldRetryCall = NoCall
    /\ result = NoResult
    /\ nSends = 0
    /\ nAttempts = 0
    /\ nRefresh = 0
    /\ n401 = 0
    /\ n5xx = 0
    /\ nWire = NotCounted
    /\ session = NoSession
    /\ uploads = <<>>
    /\ threads = [t \in Threads |-> NoThread]
    /\ sample = NoSample
    /\ cron = NoCron
    /\ select = NoSelect
    /\ node = NoNode

\* ------------------------------------------------- the start of an operation
\* the caller's call: the frame of the operation and its first attempt
BeginWith(name, method, endpoint, retryCount, headers, given, purpose, via, auth, body) ==
    /\ pc = "idle"
    /\ pc' = purpose
    /\ op' = [name |-> name, method |-> method, retryCount |-> retryCount,
              start |-> retryCount, headers |-> headers, headersGiven |-> given,
              after |-> op.name, endpoint |-> endpoint, body |-> body]
    /\ inflight' = [Attempt(purpose, via, method, endpoint, headers, auth)
                      EXCEPT !.body = body]
    /\ shouldRetryCall' = NoCall
    /\ result' = NoResult
    /\ nSends' = IF purpose = "request" THEN 1 ELSE 0
    /\ nWire' = counted(IF purpose = "request" THEN 1 ELSE 0)
    /\ nAttempts' = 1
    /\ nRefresh' = IF purpose = "refresh" THEN 1 ELSE 0
    /\ n401' = 0
    /\ n5xx' = 0

\* a call whose files and parameters the model does not follow
Begin(name, method, endpoint, retryCount, headers, given, purpose, via, auth) ==
    BeginWith(name, method, endpoint, retryCount, headers, given, purpose, via, auth,
              NoBody)

\* genericJSONRequest(endpoint, requestType, parameters, headers, retryCount)
genericJSONRequest(method, given, headers, retryCount) ==
    /\ Begin("genericJSONRequest", method, "object", retryCount,
             IF given THEN headers ELSE requestHeader(apiToken), given,
             "request", "genericRequest", sessionAuth)
    /\ UNCHANGED <<creds, dest, upload>>

\* genericUpload(endpoint, files, parameters, retryCount)
genericUpload(retryCount) ==
    /\ Begin("genericUpload", "post", "object", retryCount,
             uploadHeader(apiToken), FALSE, "request", "genericRequest", sessionAuth)
    /\ UNCHANGED <<creds, dest, upload>>

\* genericDownload(endpoint, destination, parameters, retryCount); destination
\* names a path that holds nothing, a file or a directory
genericDownload(destination, retryCount) ==
    /\ Begin("genericDownload", "get", "object", retryCount,
             requestHeader(apiToken), FALSE, "request", "get", sessionAuth)
    /\ dest' = destination
    /\ UNCHANGED <<creds, upload>>

\* genericDelete(endpoint)
genericDelete ==
    /\ Begin("genericDelete", "delete", "object", 0,
             requestHeader(apiToken), FALSE, "request", "genericRequest", sessionAuth)
    /\ UNCHANGED <<creds, dest, upload>>

\* mutation: authenticate does not call setAuth
authenticateWithoutSetAuth(user) ==
    /\ Begin("authenticate", "post", "user/login", 0,
             requestHeader(apiToken), FALSE, "login", "post", sessionAuth)
    /\ UNCHANGED <<creds, dest, upload>>

\* authenticate(username, password): setAuth, then _authenticate's post
authenticate(user) ==
    /\ sessionAuth' = user
    /\ Begin("authenticate", "post", "user/login", 0,
             requestHeader(apiToken), FALSE, "login", "post", user)
    /\ UNCHANGED <<apiToken, refreshToken, dest, upload>>

\* refreshToken(), called by the caller
refreshTokenRequest ==
    /\ Begin("refreshToken", "post", "user/refresh", 0,
             refreshHeader(apiToken, refreshToken), FALSE, "refresh", "genericRequest",
             sessionAuth)
    /\ UNCHANGED <<creds, dest, upload>>

\* mutation: the given token is sent but not stored
authenticateWithRefreshTokenUnstored(token) ==
    /\ Begin("authenticateWithRefreshToken", "post", "user/refresh", 0,
             refreshHeader(apiToken, token), FALSE, "refresh", "genericRequest",
             sessionAuth)
    /\ UNCHANGED <<creds, dest, upload>>

\* authenticateWithRefreshToken(token)
authenticateWithRefreshToken(token) ==
    /\ refreshToken' = token
    /\ Begin("authenticateWithRefreshToken", "post", "user/refresh", 0,
             refreshHeader(apiToken, token), FALSE, "refresh", "genericRequest",
             sessionAuth)
    /\ UNCHANGED <<apiToken, sessionAuth, dest, upload>>

\* mutation: the transport is not reset, the Basic-auth pair stays
resetTokensOnly ==
    /\ pc = "idle"
    /\ apiToken' = NoToken
    /\ refreshToken' = NoToken
    /\ op' = [NoOp EXCEPT !.name = "reset"]
    /\ UNCHANGED <<sessionAuth, dest, pc, inflight, shouldRetryCall, result, counters,
                   upload>>

\* reset(): it returns at once, no request is sent
reset ==
    /\ pc = "idle"
    /\ apiToken' = NoToken
    /\ refreshToken' = NoToken
    /\ sessionAuth' = NoAuth
    /\ op' = [NoOp EXCEPT !.name = "reset"]
    /\ UNCHANGED <<dest, pc, inflight, shouldRetryCall, result, counters, upload>>

\* the caller has the outcome of the operation; the client is idle again
ReturnToCaller ==
    /\ pc = "done"
    /\ pc' = "idle"
    /\ op' = NoOp
    /\ inflight' = NoRequest
    /\ shouldRetryCall' = NoCall
    /\ result' = NoResult
    /\ nSends' = 0 /\ nAttempts' = 0 /\ nRefresh' = 0 /\ n401' = 0 /\ n5xx' = 0
    /\ nWire' = counted(0)
    /\ dest' = "absent"
    /\ UNCHANGED <<creds, upload>>

\* ------------------------------------------- the end of a generic operation
\* mutation: a directory is taken for a file
is_dirNever(destination) == FALSE

\* destinationPath.is_dir()
is_dir(destination) == destination = "dir"

\* if destinationPath.exists(): destinationPath.unlink(missing_ok = True)
unlink(destination) == IF destination = "oldfile" THEN "absent" ELSE destination

\* open(destination, "wb") and write: a new file holds the content, or the
\* file that is there gets it
write(destination) ==
    IF destination = "absent" THEN "newfile"
    ELSE IF destination = "oldfile" THEN "overwritten"
    ELSE destination

\* the operation returns networkResponse; genericDownload first writes the
\* content of an ok response to destination
Return(status) ==
    /\ pc' = "done"
    /\ IF op.name = "genericDownload" /\ rawOk(status)
       THEN IF is_dir(dest)
            THEN result' = Raised("RuntimeError") /\ dest' = dest
            ELSE result' = Returned("original", status, NoToken, NoToken)
                 /\ dest' = write(unlink(dest))
       ELSE result' = Returned("original", status, NoToken, NoToken)
            /\ dest' = dest
    /\ UNCHANGED <<op, inflight, nSends, nAttempts, nWire>>

\* mutation: the recursive call loses the files and parameters
ResendWithoutBody(tok) ==
    /\ op.retryCount < MaxDepth
    /\ pc' = "request"
    /\ op' = [op EXCEPT !.retryCount = @ + 1,
                        !.headers = headersOfRetry(op.name, op.headers, tok)]
    /\ inflight' = Attempt("request", viaOf(op.name), op.method, op.endpoint,
                           headersOfRetry(op.name, op.headers, tok), sessionAuth)
    /\ nSends' = nSends + 1
    /\ nWire' = counted(nWire + 1)
    /\ nAttempts' = 1
    /\ UNCHANGED <<dest, result>>

\* the recursive call with retryCount + 1; tok is _apiToken at that time
Resend(tok) ==
    /\ op.retryCount < MaxDepth
    /\ pc' = "request"
    /\ op' = [op EXCEPT !.retryCount = @ + 1,
                        !.headers = headersOfRetry(op.name, op.headers, tok)]
    /\ inflight' = [Attempt("request", viaOf(op.name), op.method, op.endpoint,
                            headersOfRetry(op.name, op.headers, tok), sessionAuth)
                      EXCEPT !.body = op.body]
    /\ nSends' = nSends + 1
    /\ nWire' = counted(nWire + 1)
    /\ nAttempts' = 1
    /\ UNCHANGED <<dest, result>>

\* mutation: the retry of the transport is issued without the headers
TransportExceptionWithoutHeaders ==
    /\ pc \in {"request", "refresh", "login"}
    /\ IF transportRetries(inflight.via, inflight.retryCount)
       THEN /\ inflight' = [inflight EXCEPT !.retryCount = @ + 1, !.auth = sessionAuth,
                                            !.headers = NoHeaders]
            /\ nAttempts' = nAttempts + 1
            /\ nWire' = counted(IF pc = "request" THEN nWire + 1 ELSE nWire)
            /\ UNCHANGED <<pc, result, shouldRetryCall>>
       ELSE /\ pc' = "done"
            /\ result' = Raised("RequestFailedError")
            /\ shouldRetryCall' =
                  IF pc = "refresh" /\ shouldRetryCall.returned = "pending"
                  THEN [shouldRetryCall EXCEPT !.returned = "raised"]
                  ELSE shouldRetryCall
            /\ UNCHANGED <<inflight, nAttempts, nWire>>
    /\ UNCHANGED <<creds, dest, op, nSends, nRefresh, n401, n5xx, upload>>

\* ------------------------------------------------------------ the transport
\* the attempt on the wire raises: the except branch of genericRequest, get, post
TransportException ==
    /\ pc \in {"request", "refresh", "login"}
    /\ IF transportRetries(inflight.via, inflight.retryCount)
       THEN /\ inflight' = [inflight EXCEPT !.retryCount = @ + 1, !.auth = sessionAuth]
            /\ nAttempts' = nAttempts + 1
            /\ nWire' = counted(IF pc = "request" THEN nWire + 1 ELSE nWire)
            /\ UNCHANGED <<pc, result, shouldRetryCall>>
       ELSE /\ pc' = "done"
            /\ result' = Raised("RequestFailedError")
            /\ shouldRetryCall' =
                  IF pc = "refresh" /\ shouldRetryCall.returned = "pending"
                  THEN [shouldRetryCall EXCEPT !.returned = "raised"]
                  ELSE shouldRetryCall
            /\ UNCHANGED <<inflight, nAttempts, nWire>>
    /\ UNCHANGED <<creds, dest, op, nSends, nRefresh, n401, n5xx, upload>>

\* ------------------------------------------------- the answers of the server
\* the original request of a generic operation is answered with status
OriginalResponse(status) ==
    /\ pc = "request"
    /\ UNCHANGED upload
    /\ n401' = IF isUnauthorized(status) THEN n401 + 1 ELSE n401
    /\ n5xx' = IF retriedStatus(status) THEN n5xx + 1 ELSE n5xx
    /\ IF ~callsShouldRetry(op.name)
       THEN \* genericDelete returns the response of genericRequest
            /\ Return(status)
            /\ UNCHANGED <<creds, shouldRetryCall, nRefresh>>
       ELSE IF retryLimitReached(op.retryCount)
       THEN /\ shouldRetryCall' = [called |-> TRUE, retryCount |-> op.retryCount,
                                   status |-> status, refreshCalls |-> 0,
                                   refreshStatus |-> 0, returned |-> "false"]
            /\ Return(status)
            /\ UNCHANGED <<creds, nRefresh>>
       ELSE IF isUnauthorized(status)
       THEN \* shouldRetry calls refreshToken(): its request goes on the wire
            /\ shouldRetryCall' = [called |-> TRUE, retryCount |-> op.retryCount,
                                   status |-> status, refreshCalls |-> 1,
                                   refreshStatus |-> 0, returned |-> "pending"]
            /\ pc' = "refresh"
            /\ inflight' = Attempt("refresh", "genericRequest", "post", "user/refresh",
                                   refreshHeader(apiToken, refreshToken), sessionAuth)
            /\ nRefresh' = nRefresh + 1
            /\ nAttempts' = 1
            /\ UNCHANGED <<creds, dest, op, result, nSends, nWire>>
       ELSE /\ shouldRetryCall' = [called |-> TRUE, retryCount |-> op.retryCount,
                                   status |-> status, refreshCalls |-> 0,
                                   refreshStatus |-> 0,
                                   returned |-> IF retriedStatus(status)
                                                THEN "true" ELSE "false"]
            /\ IF retriedStatus(status) THEN Resend(apiToken) ELSE Return(status)
            /\ UNCHANGED <<creds, nRefresh>>

\* the request of refreshToken() is answered; tok and rtok are the values of
\* the keys "token" and "refresh_token" of its JSON body (NoToken: no such key)
RefreshResponse(status, tok, rtok) ==
    /\ pc = "refresh"
    /\ apiToken' = IF tok # NoToken THEN tok ELSE apiToken
    /\ UNCHANGED <<refreshToken, sessionAuth, nRefresh, n401, n5xx, upload>>
    /\ IF op.name \in {"refreshToken", "authenticateWithRefreshToken"}
       THEN \* refreshToken() was called by the caller: its response is returned
            /\ pc' = "done"
            /\ result' = Returned("refresh", status, tok, rtok)
            /\ UNCHANGED <<dest, op, inflight, shouldRetryCall, nSends, nAttempts, nWire>>
       ELSE /\ shouldRetryCall' =
                  [shouldRetryCall EXCEPT !.refreshStatus = status,
                      !.returned = IF retryAfterRefresh(status) THEN "true" ELSE "false"]
            /\ IF retryAfterRefresh(status)
               THEN Resend(apiToken')
               ELSE Return(returnedResponse(shouldRetryCall.status, status))

\* mutation: _authenticate sends the login request again after 500 or 503
LoginResponseRetried(status, tok, rtok) ==
    /\ pc = "login"
    /\ apiToken' = IF tok # NoToken THEN tok ELSE apiToken
    /\ refreshToken' = IF rtok # NoToken THEN rtok ELSE refreshToken
    /\ IF retriedStatus(status) /\ nAttempts < 4
       THEN /\ nAttempts' = nAttempts + 1
            /\ UNCHANGED <<pc, result, nSends, nRefresh, n401, n5xx, nWire>>
       ELSE /\ pc' = "done"
            /\ result' = Returned("login", status, tok, rtok)
            /\ UNCHANGED counters
    /\ UNCHANGED <<sessionAuth, dest, op, inflight, shouldRetryCall, upload>>

\* the login request of _authenticate is answered
LoginResponse(status, tok, rtok) ==
    /\ pc = "login"
    /\ apiToken' = IF tok # NoToken THEN tok ELSE apiToken
    /\ refreshToken' = IF rtok # NoToken THEN rtok ELSE refreshToken
    /\ pc' = "done"
    /\ result' = Returned("login", status, tok, rtok)
    /\ UNCHANGED <<sessionAuth, dest, op, inflight, shouldRetryCall, counters, upload>>

\* ------------------------------------------------------------- the system
Destinations == {"absent", "oldfile", "dir"}
RequestTypes == {"get", "post"}
GivenHeaders == {Header(t, TRUE) : t \in TokenOpt}

Next ==
    \/ \E m \in RequestTypes, r \in 0..MaxStartRetry :
          genericJSONRequest(m, FALSE, NoHeaders, r)
    \/ \E m \in RequestTypes, h \in GivenHeaders, r \in 0..MaxStartRetry :
          genericJSONRequest(m, TRUE, h, r)
    \/ \E r \in 0..MaxStartRetry : genericUpload(r)
    \/ \E d \in Destinations, r \in 0..MaxStartRetry : genericDownload(d, r)
    \/ genericDelete
    \/ \E u \in Users : authenticate(u)
    \/ refreshTokenRequest
    \/ \E t \in Tokens : authenticateWithRefreshToken(t)
    \/ reset
    \/ TransportException
    \/ \E s \in Status : OriginalResponse(s)
    \/ \E s \in Status, t \in TokenOpt, r \in TokenOpt : RefreshResponse(s, t, r)
    \/ \E s \in Status, t \in TokenOpt, r \in TokenOpt : LoginResponse(s, t, r)
    \/ ReturnToCaller

Spec == Init /\ [][Next]_vars

\* a client whose callers start every generic operation with the default
\* retryCount, and where the attempts of the original request are counted
\* over the whole operation
InitTraffic ==
    /\ \/ apiToken = NoToken /\ refreshToken = NoToken
       \/ apiToken = 1 /\ refreshToken = MaxToken
    /\ sessionAuth = NoAuth
    /\ dest = "absent"
    /\ pc = "idle"
    /\ op = NoOp
    /\ inflight = NoRequest
    /\ shouldRetryCall = NoCall
    /\ result = NoResult
    /\ nSends = 0 /\ nAttempts = 0 /\ nRefresh = 0 /\ n401 = 0 /\ n5xx = 0
    /\ nWire = 0
    /\ session = NoSession
    /\ uploads = <<>>
    /\ threads = [t \in Threads |-> NoThread]
    /\ sample = NoSample
    /\ cron = NoCron
    /\ select = NoSelect
    /\ node = NoNode

NextTraffic ==
    \/ \E m \in RequestTypes : genericJSONRequest(m, FALSE, NoHeaders, 0)
    \/ genericUpload(0)
    \/ \E d \in Destinations : genericDownload(d, 0)
    \/ genericDelete
    \/ TransportException
    \/ \E s \in Status : OriginalResponse(s)
    \/ \E s \in Status, t \in TokenOpt, r \in TokenOpt : RefreshResponse(s, t, r)
    \/ ReturnToCaller

SpecTraffic == InitTraffic /\ [][NextTraffic]_vars

\* a client whose callers log in with one pair or another, make their calls
\* with the default retryCount, and reset
LoginUsers == 1..(MaxUser + 1)

NextAuth ==
    \/ \E u \in LoginUsers : authenticate(u)
    \/ \E m \in RequestTypes : genericJSONRequest(m, FALSE, NoHeaders, 0)
    \/ genericUpload(0)
    \/ genericDelete
    \/ refreshTokenRequest
    \/ reset
    \/ TransportException
    \/ \E s \in Status : OriginalResponse(s)
    \/ \E s \in Status, t \in TokenOpt, r \in TokenOpt : RefreshResponse(s, t, r)
    \/ \E s \in Status, t \in TokenOpt, r \in TokenOpt : LoginResponse(s, t, r)
    \/ ReturnToCaller

SpecAuth == Init /\ [][NextAuth]_vars

\* the attempt on the wire gets no answer: Session.request is called without
\* timeout (the argument is commented out), so the call never returns
Hang ==
    /\ pc \in {"request", "refresh", "login"}
    /\ pc' = "hung"
    /\ UNCHANGED <<creds, dest, op, inflight, shouldRetryCall, result, counters, upload>>

\* what the network does with an attempt on the wire
Answer ==
    \/ TransportException
    \/ \E s \in Status : OriginalResponse(s)
    \/ \E s \in Status, t \in TokenOpt, r \in TokenOpt : RefreshResponse(s, t, r)
    \/ \E s \in Status, t \in TokenOpt, r \in TokenOpt : LoginResponse(s, t, r)
    \/ Hang

NextFair == Next \/ Hang

\* the network does one of these things with every attempt
SpecFair == Init /\ [][NextFair]_vars /\ WF_vars(Answer)

\* ------------------------------------------------------- ChunkUploadSession
\* response.json.get("id"): the key is missing, its value is not a str, or it
\* is one of the ids 1..MaxUploadId
NoId == 0
NotAString == -1
UploadIds == 1..MaxUploadId
IdValues == {NoId, NotAString} \cup UploadIds
isStr(id) == id \in UploadIds

MiB == 1024 * 1024
MAX_CHUNK_SIZE == 128 * 1024 * 1024

min(a, b) == IF a <= b THEN a ELSE b

\* mutation: the maximum itself is refused
invalidChunkSizeExclusive(chunkSize) == chunkSize <= 0 \/ chunkSize >= MAX_CHUNK_SIZE

\* __init__: the test of chunkSize
invalidChunkSize(chunkSize) == chunkSize <= 0 \/ chunkSize > MAX_CHUNK_SIZE

\* mutation: an empty file is given one chunk
chunkCountAtLeastOne(fileSize, chunkSize) ==
    IF fileSize = 0 THEN 1
    ELSE IF fileSize % chunkSize # 0 THEN fileSize \div chunkSize + 1
    ELSE fileSize \div chunkSize

\* mutation: the remainder of the division is forgotten
chunkCountFloor(fileSize, chunkSize) == fileSize \div chunkSize

\* run: chunkCount
chunkCount(fileSize, chunkSize) ==
    IF fileSize % chunkSize # 0 THEN fileSize \div chunkSize + 1
    ELSE fileSize \div chunkSize

\* run: start and end of chunk i
chunkStart(i, chunkSize) == i * chunkSize
chunkEnd(start, chunkSize, fileSize) == min(start + chunkSize, fileSize)

\* _loadChunk: seek(start), read(chunkSize) on a file of diskSize bytes; the
\* number of bytes read
loadChunk(diskSize, start, chunkSize) ==
    IF start >= diskSize THEN 0 ELSE min(chunkSize, diskSize - start)

\* mutation: the form field end is the exclusive end
chunkRequestExclusiveEnd(uploadId, start, end, diskSize, chunkSize) ==
    [id |-> uploadId, start |-> start, end |-> end,
     length |-> loadChunk(diskSize, start, chunkSize)]

\* __uploadChunk: the form fields and the payload of one chunk upload
chunkRequest(uploadId, start, end, diskSize, chunkSize) ==
    [id |-> uploadId, start |-> start, end |-> end - 1,
     length |-> loadChunk(diskSize, start, chunkSize)]

ChunkSizes == {-1, 0} \cup 1..MaxSmallChunk
                 \cup {16 * MiB, MAX_CHUNK_SIZE, MAX_CHUNK_SIZE + 1}
FileSizes == 0..MaxFileSize \cup {40 * MiB, MAX_CHUNK_SIZE + 1}

\* the sizes the file can have when a chunk of it is read
DiskSizes(fileSize) ==
    {d \in (fileSize - MaxDrift)..(fileSize + MaxDrift) : d >= 0}

Running == session.pc \in {"starting", "loop", "uploading"}

\* the frame of a finished operation of the client is dropped
clientIdle ==
    /\ pc' = "idle"
    /\ op' = NoOp
    /\ inflight' = NoRequest
    /\ shouldRetryCall' = NoCall
    /\ result' = NoResult
    /\ nSends' = 0 /\ nAttempts' = 0 /\ nRefresh' = 0 /\ n401' = 0 /\ n5xx' = 0
    /\ nWire' = counted(0)

\* ChunkUploadSession(chunkSize, filePath, mimeType); the file has fileSize
\* bytes, and mimeKnown is false when no mime type is passed and none is guessed;
\* a constructor that raises leaves no object: the record keeps the exception
\* and the chunkSize that was passed
ChunkUploadSession(chunkSize, fileSize, mimeKnown) ==
    /\ UNCHANGED <<threads, apart>>
    /\ pc = "idle"
    /\ ~Running
    /\ ~invalidChunkSize(chunkSize) => chunkCount(fileSize, chunkSize) <= MaxChunks
    /\ session' =
          IF invalidChunkSize(chunkSize)
          THEN [NoSession EXCEPT !.pc = "invalid", !.error = "ValueError",
                                 !.chunkSize = chunkSize]
          ELSE IF ~mimeKnown
          THEN [NoSession EXCEPT !.pc = "invalid", !.error = "Exception",
                                 !.chunkSize = chunkSize]
          ELSE [NoSession EXCEPT !.pc = "constructed", !.chunkSize = chunkSize,
                                 !.fileSize = fileSize]
    /\ uploads' = <<>>
    /\ UNCHANGED <<creds, dest, pc, op, inflight, shouldRetryCall, result, counters>>

\* run() up to the request of __start: genericJSONRequest("upload/start",
\* RequestType.post, {"size": self.fileSize})
run ==
    /\ UNCHANGED <<threads, apart>>
    /\ session.pc \in {"constructed", "returned", "failed"}
    /\ Begin("genericJSONRequest", "post", "upload/start", 0,
             requestHeader(apiToken), FALSE, "request", "genericRequest", sessionAuth)
    /\ session' = [session EXCEPT !.pc = "starting", !.sizeSent = session.fileSize,
                                  !.starts = 1, !.uploadId = NoId, !.i = 0,
                                  !.succeeded = 0, !.error = "none"]
    /\ uploads' = <<>>
    /\ UNCHANGED <<creds, dest>>

\* the body of the loop of run() up to the request of __uploadChunk, the file
\* having diskSize bytes when _loadChunk reads it:
\* genericUpload("upload/chunk", files, parameters)
uploadChunk(diskSize) ==
    /\ UNCHANGED <<threads, apart>>
    /\ session.pc = "loop"
    /\ diskSize \in DiskSizes(session.fileSize)
    /\ LET start == chunkStart(session.i, session.chunkSize)
           end == chunkEnd(start, session.chunkSize, session.fileSize)
           chunk == chunkRequest(session.uploadId, start, end, diskSize,
                                 session.chunkSize)
       IN /\ BeginWith("genericUpload", "post", "upload/chunk", 0,
                       uploadHeader(apiToken), FALSE, "request", "genericRequest",
                       sessionAuth, chunk)
          /\ uploads' = Append(uploads, chunk)
    /\ session' = [session EXCEPT !.pc = "uploading"]
    /\ UNCHANGED <<creds, dest>>

\* run() ends: it returns uploadId, or an exception leaves it
runReturns == [session EXCEPT !.pc = "returned"]
runRaises(error) == [session EXCEPT !.pc = "failed", !.error = error]

\* mutation: the loop ends before its last chunk
loopIsOverEarly(i, n) == i + 1 >= n

\* for i in range(chunkCount): no chunk is left
loopIsOver(i, n) == i >= n

\* mutation: a failed start response is not looked at
startReturnedUnchecked(id) ==
    /\ UNCHANGED <<threads, apart>>
    /\ session.pc = "starting"
    /\ pc = "done"
    /\ clientIdle
    /\ session' =
          IF result.kind # "response" THEN runRaises(result.kind)
          ELSE IF ~isStr(id) THEN [runRaises("ValueError") EXCEPT !.uploadId = id]
          ELSE IF loopIsOver(0, chunkCount(session.fileSize, session.chunkSize))
          THEN [runReturns EXCEPT !.uploadId = id]
          ELSE [session EXCEPT !.pc = "loop", !.uploadId = id, !.i = 0]
    /\ UNCHANGED <<creds, dest, uploads>>

\* the rest of __start, and run() up to its loop: genericJSONRequest has
\* returned or raised; id is the value of "id" in the body of the response
startReturned(id) ==
    /\ UNCHANGED <<threads, apart>>
    /\ session.pc = "starting"
    /\ pc = "done"
    /\ clientIdle
    /\ session' =
          IF result.kind # "response" THEN runRaises(result.kind)
          ELSE IF hasFailed(result.status) THEN runRaises("NetworkRequestError")
          ELSE IF ~isStr(id) THEN [runRaises("ValueError") EXCEPT !.uploadId = id]
          ELSE IF loopIsOver(0, chunkCount(session.fileSize, session.chunkSize))
          THEN [runReturns EXCEPT !.uploadId = id]
          ELSE [session EXCEPT !.pc = "loop", !.uploadId = id, !.i = 0]
    /\ UNCHANGED <<creds, dest, uploads>>

\* mutation: a failed chunk response is not looked at
chunkReturnedUnchecked ==
    /\ UNCHANGED <<threads, apart>>
    /\ session.pc = "uploading"
    /\ pc = "done"
    /\ clientIdle
    /\ session' =
          IF result.kind # "response" THEN runRaises(result.kind)
          ELSE LET next == [session EXCEPT !.i = session.i + 1,
                               !.succeeded = session.succeeded
                                   + (IF hasFailed(result.status) THEN 0 ELSE 1)]
               IN IF loopIsOver(next.i, chunkCount(session.fileSize, session.chunkSize))
                  THEN [next EXCEPT !.pc = "returned"]
                  ELSE [next EXCEPT !.pc = "loop"]
    /\ UNCHANGED <<creds, dest, uploads>>

\* the rest of __uploadChunk, and the loop of run() up to its next chunk or
\* to the return: genericUpload has returned or raised
chunkReturned ==
    /\ UNCHANGED <<threads, apart>>
    /\ session.pc = "uploading"
    /\ pc = "done"
    /\ clientIdle
    /\ session' =
          IF result.kind # "response" THEN runRaises(result.kind)
          ELSE IF hasFailed(result.status) THEN runRaises("NetworkRequestError")
          ELSE LET next == [session EXCEPT !.i = session.i + 1,
                                           !.succeeded = session.succeeded + 1]
               IN IF loopIsOver(next.i, chunkCount(session.fileSize, session.chunkSize))
                  THEN [next EXCEPT !.pc = "returned"]
                  ELSE [next EXCEPT !.pc = "loop"]
    /\ UNCHANGED <<creds, dest, uploads>>

\* a process that has not logged in, or one that has and holds two tokens
InitUpload ==
    /\ \/ apiToken = NoToken /\ refreshToken = NoToken
       \/ apiToken = 1 /\ refreshToken = MaxToken
    /\ sessionAuth = NoAuth
    /\ dest = "absent"
    /\ pc = "idle"
    /\ op = NoOp
    /\ inflight = NoRequest
    /\ shouldRetryCall = NoCall
    /\ result = NoResult
    /\ nSends = 0 /\ nAttempts = 0 /\ nRefresh = 0 /\ n401 = 0 /\ n5xx = 0
    /\ nWire = NotCounted
    /\ session = NoSession
    /\ uploads = <<>>
    /\ threads = [t \in Threads |-> NoThread]
    /\ sample = NoSample
    /\ cron = NoCron
    /\ select = NoSelect
    /\ node = NoNode

NextUpload ==
    \/ \E c \in ChunkSizes, f \in FileSizes, m \in BOOLEAN : ChunkUploadSession(c, f, m)
    \/ run
    \/ \E id \in IdValues : startReturned(id)
    \/ \E d \in UNION {DiskSizes(f) : f \in FileSizes} : uploadChunk(d)
    \/ chunkReturned
    \/ TransportException
    \/ \E s \in Status : OriginalResponse(s)
    \/ \E s \in Status, t \in TokenOpt, r \in TokenOpt : RefreshResponse(s, t, r)

SpecUpload == InitUpload /\ [][NextUpload]_vars

\* ------------------------------------------------- threads on one client
\* Each thread has the frame of its own call; _apiToken and _refreshToken are
\* shared and nothing locks them.  A step is one call of
\* RequestsManager.genericRequest, which reads and writes no token: it
\* returns a response or raises RequestFailedError.
ThreadOps == {"genericJSONRequest", "genericUpload"}

sequential == <<sessionAuth, dest, pc, op, inflight, shouldRetryCall, result,
                counters, session, uploads, apart>>

\* thread t calls genericJSONRequest or genericUpload with retryCount 0
tCall(t, name) ==
    /\ threads[t].pc = "idle"
    /\ LET headers == IF name = "genericUpload" THEN uploadHeader(apiToken)
                      ELSE requestHeader(apiToken)
       IN threads' = [threads EXCEPT ![t] =
             [NoThread EXCEPT !.pc = "request", !.name = name,
                              !.headers = headers, !.sent = headers]]
    /\ UNCHANGED <<apiToken, refreshToken, sequential>>

\* the recursive call of thread t with retryCount + 1; tok is _apiToken then
tResend(th, tok) ==
    [th EXCEPT !.pc = "request", !.retryCount = @ + 1,
               !.headers = headersOfRetry(th.name, th.headers, tok),
               !.sent = headersOfRetry(th.name, th.headers, tok),
               !.cleared = th.reset /\ tok = NoToken]

\* the request of thread t is answered: shouldRetry, then the recursive call,
\* the request of refreshToken() or the return
tResponse(t, status) ==
    LET th == threads[t]
    IN /\ th.pc = "request"
       /\ threads' = [threads EXCEPT ![t] =
             IF retryLimitReached(th.retryCount) THEN [th EXCEPT !.pc = "done"]
             ELSE IF isUnauthorized(status)
             THEN [th EXCEPT !.pc = "refresh",
                             !.sent = refreshHeader(apiToken, refreshToken)]
             ELSE IF retriedStatus(status) THEN tResend(th, apiToken)
             ELSE [th EXCEPT !.pc = "done"]]
       /\ UNCHANGED <<apiToken, refreshToken, sequential>>

\* the refresh request of thread t is answered: refreshToken() stores the
\* value of "token", and shouldRetry returns whether the response is good
tRefreshResponse(t, status, tok) ==
    LET th == threads[t]
    IN /\ th.pc = "refresh"
       /\ apiToken' = IF tok # NoToken THEN tok ELSE apiToken
       /\ threads' = [threads EXCEPT ![t] =
             IF retryAfterRefresh(status) THEN tResend(th, apiToken')
             ELSE [th EXCEPT !.pc = "done"]]
       /\ UNCHANGED <<refreshToken, sequential>>

\* genericRequest of thread t raises RequestFailedError
tRaise(t) ==
    /\ threads[t].pc \in {"request", "refresh"}
    /\ threads' = [threads EXCEPT ![t].pc = "done"]
    /\ UNCHANGED <<apiToken, refreshToken, sequential>>

\* the call of thread t returns to its caller
tReturn(t) ==
    /\ threads[t].pc = "done"
    /\ threads' = [threads EXCEPT ![t] = NoThread]
    /\ UNCHANGED <<apiToken, refreshToken, sequential>>

\* reset(), called while other threads are in their calls
tReset ==
    /\ apiToken' = NoToken
    /\ refreshToken' = NoToken
    /\ sessionAuth' = NoAuth
    /\ threads' = [t \in Threads |->
                     IF threads[t].pc \in {"request", "refresh"}
                     THEN [threads[t] EXCEPT !.reset = TRUE] ELSE threads[t]]
    /\ UNCHANGED <<dest, pc, op, inflight, shouldRetryCall, result, counters,
                   session, uploads, apart>>

NextThreads ==
    \/ \E t \in Threads, name \in ThreadOps : tCall(t, name)
    \/ \E t \in Threads, s \in Status : tResponse(t, s)
    \/ \E t \in Threads, s \in Status, tok \in TokenOpt : tRefreshResponse(t, s, tok)
    \/ \E t \in Threads : tRaise(t)
    \/ \E t \in Threads : tReturn(t)
    \/ tReset

SpecThreads == InitUpload /\ [][NextThreads]_vars

\* ------------------------------------------------------------------ Sample
\* sample.path is the directory of the extracted sample: "absent", "old"
\* (extracted before the last call of unzip) or "fresh" (extracted by it);
\* sample.zip is the zip file: "absent", "good" or "bad" (not a zip file);
\* sample.log lists what the last call of unzip did to the file system,
\* sample.unzips counts its calls of __unzipSample and sample.bad the
\* BadZipFile exceptions these raised.
networking == <<creds, dest, pc, op, inflight, shouldRetryCall, result, counters,
                session, uploads, threads>>

ZipFiles == {"absent", "good", "bad"}

exists(path) == path # "absent"

\* mutation: the test of ignoreCache is inverted
returnsAtOnceInverted(path, ignoreCache) == exists(path) /\ ignoreCache

\* unzip: if os.path.exists(self.path) and not ignoreCache: return
returnsAtOnce(path, ignoreCache) == exists(path) /\ ~ignoreCache

\* __unzipSample on a sample in state smp: rmtree of the directory that is
\* there, then ZipFile(zipPath) and extractall, or the exception of ZipFile
unzipSample(smp) ==
    LET removed == IF exists(smp.path)
                   THEN [smp EXCEPT !.path = "absent", !.log = Append(@, "rmtree"),
                                    !.unzips = @ + 1]
                   ELSE [smp EXCEPT !.unzips = @ + 1]
    IN IF removed.zip = "good"
       THEN [removed EXCEPT !.path = "fresh", !.log = Append(@, "extractall"),
                            !.outcome = "extracted"]
       ELSE IF removed.zip = "bad"
       THEN [removed EXCEPT !.outcome = "BadZipFile", !.bad = @ + 1]
       ELSE [removed EXCEPT !.outcome = "FileNotFoundError"]

\* mutation: the zip file is deleted and not downloaded again
unzipAgainWithoutDownload(smp, downloaded) ==
    unzipSample([smp EXCEPT !.zip = "absent", !.log = Append(@, "unlink")])

\* the except branch of unzip: unlink of the zip file, download(), which
\* leaves the zip file downloaded, and __unzipSample again
unzipAgain(smp, downloaded) ==
    unzipSample([smp EXCEPT !.zip = downloaded,
                            !.log = @ \o <<"unlink", "download">>])

\* Sample.download(): the zip file is there afterwards, good or bad, or not
download(downloaded) ==
    /\ sample' = [sample EXCEPT !.zip = downloaded]
    /\ UNCHANGED <<networking, cron, select, node>>

\* Sample.unzip(ignoreCache); downloaded is the zip file that download()
\* leaves when unzip calls it
unzip(ignoreCache, downloaded) ==
    /\ sample.calls < MaxUnzips
    /\ LET called == [sample EXCEPT !.calls = @ + 1, !.ignoreCache = ignoreCache,
                          !.existed = exists(sample.path), !.log = <<>>,
                          !.unzips = 0, !.bad = 0,
                          !.path = IF exists(sample.path) THEN "old" ELSE "absent"]
           first == unzipSample(called)
       IN sample' =
             IF returnsAtOnce(called.path, ignoreCache)
             THEN [called EXCEPT !.outcome = "returned"]
             ELSE IF first.outcome = "BadZipFile"
             THEN unzipAgain(first, downloaded)
             ELSE first
    /\ UNCHANGED <<networking, cron, select, node>>

NextSample ==
    \/ \E z \in ZipFiles : download(z)
    \/ \E c \in BOOLEAN, z \in ZipFiles : unzip(c, z)

SpecSample == Init /\ [][NextSample]_vars

\* -------------------------------------------------------------------- cron
\* A string is the sequence of its words, a line of the crontab is a string,
\* and cron.lines is what `crontab -l` prints, line by line, the blank lines
\* included.
besidesCron == <<networking, sample, select, node>>

\* str.endswith
endswith(line, suffix) ==
    /\ Len(suffix) <= Len(line)
    /\ SubSeq(line, Len(line) - Len(suffix) + 1, Len(line)) = suffix

\* getExisting: the lines of the crontab that are not blank
getExisting(lines) == SelectSeq(lines, LAMBDA line : line # <<>>)

\* jobExists: any(line.endswith(script) for line in existingLines)
jobExists(lines, script) ==
    \E i \in 1..Len(getExisting(lines)) : endswith(getExisting(lines)[i], script)

\* cronEntry, as the two lines that the crontab holds once it is installed;
\* the word configDir stands for {configDir}/bin/coretex
jobLine(configDir) ==
    <<"*/5", "*", "*", "*", "*", configDir, "node", "update", "--auto", ">>",
      "out.txt", "2>&1">>
cronEntry(configDir) == <<(<<"PATH=git:docker">>), jobLine(configDir)>>

ConfigDirs == {"/home/a/.config/coretex", "/home/b/.config/coretex"}
Scripts == {<<"update_node.sh">>, <<"2>&1">>}
UserLines == {<<>>, <<"@daily", "backup.sh">>, <<"@daily", "update_node.sh">>}

\* scheduleJob(configDir, script)
scheduleJob(configDir, script) ==
    /\ cron.calls < MaxSchedules
    /\ LET called == [cron EXCEPT !.calls = @ + 1, !.configDir = configDir,
                                  !.script = script]
       IN cron' =
             IF ~cron.program
             THEN [called EXCEPT !.outcome = "ValueError"]
             ELSE IF jobExists(cron.lines, script)
             THEN [called EXCEPT !.outcome = "returned"]
             ELSE [called EXCEPT !.outcome = "installed",
                      !.lines = getExisting(cron.lines) \o cronEntry(configDir)]
    /\ UNCHANGED besidesCron

\* the user adds a line with `crontab -e`
userAddsLine(line) ==
    /\ cron.program
    /\ Len(cron.lines) < MaxLines + 2 * cron.calls
    /\ Cardinality({i \in 1..Len(cron.lines) : cron.lines[i] \in UserLines}) < MaxLines
    /\ cron' = [cron EXCEPT !.lines = Append(@, line)]
    /\ UNCHANGED besidesCron

\* the user removes the crontab with `crontab -r`
userRemovesCrontab ==
    /\ cron.program
    /\ cron.lines # <<>>
    /\ cron' = [cron EXCEPT !.lines = <<>>]
    /\ UNCHANGED besidesCron

\* crontab is taken off the machine, or put on it
crontabUninstalled ==
    /\ cron.program
    /\ cron' = [cron EXCEPT !.program = FALSE, !.lines = <<>>]
    /\ UNCHANGED besidesCron

crontabInstalled ==
    /\ ~cron.program
    /\ cron' = [cron EXCEPT !.program = TRUE]
    /\ UNCHANGED besidesCron

NextCron ==
    \/ \E c \in ConfigDirs, s \in Scripts : scheduleJob(c, s)
    \/ \E l \in UserLines : userAddsLine(l)
    \/ userRemovesCrontab
    \/ crontabUninstalled
    \/ crontabInstalled

SpecCron == Init /\ [][NextCron]_vars

\* ----------------------------------------------------------- selectModelId
\* select.prompted lists the ids the user typed, select.fetches counts the
\* calls of Model.fetchById and select.downloads those of model.download;
\* a step is one prompt together with what leads to it.
besidesSelect == <<networking, sample, cron, node>>

ModelIds == 1..MaxModelId

\* mutation: the limit is passed before the prompts stop
selectLimitReachedAbove(retryCount) == retryCount > SELECT_MAX_RETRY_COUNT

\* if retryCount >= 3: raise RuntimeError
selectLimitReached(retryCount) == retryCount >= SELECT_MAX_RETRY_COUNT

\* the body of selectModelId(storagePath, retryCount) up to the call of
\* Model.fetchById; modelId is what the user types at the prompt
selectEnters(sel, retryCount, modelId) ==
    IF selectLimitReached(retryCount)
    THEN [sel EXCEPT !.pc = "done", !.retryCount = retryCount,
                     !.outcome = "RuntimeError"]
    ELSE [sel EXCEPT !.pc = "fetching", !.retryCount = retryCount,
                     !.modelId = modelId, !.prompted = Append(@, modelId),
                     !.fetches = @ + 1]

\* the caller's call selectModelId(storagePath)
selectModelId(modelId) ==
    /\ select.pc \in {"idle", "done"}
    /\ select' = selectEnters(NoSelect, 0, modelId)
    /\ UNCHANGED besidesSelect

\* Model.fetchById raises: the except branch calls selectModelId with
\* retryCount + 1, and its outcome is returned
fetchRaises(modelId) ==
    /\ select.pc = "fetching"
    /\ select' = selectEnters(select, select.retryCount + 1, modelId)
    /\ UNCHANGED besidesSelect

\* Model.fetchById returns the model: it is downloaded, which may raise, and
\* modelId is returned
fetchReturns(downloadRaises) ==
    /\ select.pc = "fetching"
    /\ select' = [select EXCEPT !.pc = "done", !.fetched = TRUE, !.downloads = @ + 1,
                                !.outcome = IF downloadRaises THEN "raised"
                                            ELSE "returned"]
    /\ UNCHANGED besidesSelect

NextSelect ==
    \/ \E m \in ModelIds : selectModelId(m)
    \/ \E m \in ModelIds : fetchRaises(m)
    \/ \E r \in BOOLEAN : fetchReturns(r)

SpecSelect == Init /\ [][NextSelect]_vars

\* ---------------------------------------------- initializeNodeConfiguration
\* node.configured tells whether the stored configuration is one of a
\* configured node and node.saved is the node name in it; node.running tells
\* whether the container of the node runs.  node.log lists the calls that the
\* last initializeNodeConfiguration() made, node.answer is the answer to its
\* prompt, and node.whileRunning tells that it called configureNode or
\* saveConfig while the container was running.
besidesNode == <<networking, sample, cron, select>>

NodeNames == 1..MaxNodeName

\* stop(): docker.stopContainer and clean() returned, or one of them raised
\* and stop() raises NodeException with the container stopped or not
StopOutcomes == {"stopped", "raisedStopped", "raisedRunning"}

\* mutation: the answer to the prompt is not looked at
declinedNever(stopNode) == FALSE

\* if not stopNode: return
declined(stopNode) == ~stopNode

\* configureNode(config, verbose = False) and saveConfig(config) on node nd,
\* the user typing nodeName: saveConfig runs when configureNode returned
configureAndSave(nd, configureRaises, nodeName) ==
    LET entered == [nd EXCEPT !.log = Append(@, "configureNode"),
                              !.whileRunning = nd.running]
    IN IF configureRaises
       THEN [entered EXCEPT !.outcome = "raised"]
       ELSE [entered EXCEPT !.log = Append(@, "saveConfig"), !.configured = TRUE,
                            !.saved = nodeName, !.outcome = "returned"]

\* initializeNodeConfiguration(); validateRaises, stopNode, stopOutcome,
\* configureRaises and nodeName are what validateConfiguration, the prompt,
\* stop(), configureNode and the user at its prompt do when they are reached
initializeNodeConfiguration(validateRaises, stopNode, stopOutcome, configureRaises, nodeName) ==
    /\ node.calls < MaxInits
    /\ LET called == [node EXCEPT !.calls = @ + 1, !.log = <<"loadConfig">>,
                                  !.wasConfigured = node.configured,
                                  !.wasRunning = node.running,
                                  !.answer = "none", !.whileRunning = FALSE]
           asked == [called EXCEPT !.log = Append(@, "clickPrompt"),
                                   !.answer = IF stopNode THEN "yes" ELSE "no"]
           stopping == [asked EXCEPT !.log = Append(@, "stop"),
                                     !.running = stopOutcome = "raisedRunning"]
       IN node' =
             IF node.configured
             THEN [called EXCEPT !.log = Append(@, "validateConfiguration"),
                      !.outcome = IF validateRaises THEN "raised" ELSE "returned"]
             ELSE IF ~node.running
             THEN configureAndSave(called, configureRaises, nodeName)
             ELSE IF declined(stopNode)
             THEN [asked EXCEPT !.outcome = "returned"]
             ELSE IF stopOutcome # "stopped"
             THEN [stopping EXCEPT !.outcome = "NodeException"]
             ELSE configureAndSave(stopping, configureRaises, nodeName)
    /\ UNCHANGED besidesNode

\* the container of the node is started or stopped by another command
nodeStarts ==
    /\ ~node.running
    /\ node' = [node EXCEPT !.running = TRUE]
    /\ UNCHANGED besidesNode

nodeStops ==
    /\ node.running
    /\ node' = [node EXCEPT !.running = FALSE]
    /\ UNCHANGED besidesNode

\* the stored configuration is removed
configRemoved ==
    /\ node.configured
    /\ node' = [node EXCEPT !.configured = FALSE, !.saved = 0]
    /\ UNCHANGED besidesNode

NextNode ==
    \/ \E v \in BOOLEAN, a \in BOOLEAN, o \in StopOutcomes, c \in BOOLEAN, n \in NodeNames :
          initializeNodeConfiguration(v, a, o, c, n)
    \/ nodeStarts
    \/ nodeStops
    \/ configRemoved

SpecNode == Init /\ [][NextNode]_vars

\* ---------------------------------------------------------------- claims
\* ceil(F / C), by its definition: the least n with n * C >= F
ceilDiv(F, C) ==
    CHOOSE n \in 0..(MaxChunks + 1) : n * C >= F /\ (n > 0 => (n - 1) * C < F)

\* the half-open range [start, end) of the k-th chunk upload of the run
rangeStart(k) == uploads[k].start
rangeEnd(k) == uploads[k].end + 1

Retrying == op.name \in RetryingOps
Is401Call == shouldRetryCall.called /\ isUnauthorized(shouldRetryCall.status)
OriginalResult(status) == Returned("original", status, NoToken, NoToken)

\* C1: after a 401 and a successful refresh, the request that genericJSONRequest,
\* genericUpload or genericDownload (called without explicit headers) sends
\* again carries the access token stored at that time.
C1_ResendCarriesStoredToken ==
    ( /\ pc = "request"
      /\ Retrying
      /\ ~op.headersGiven
      /\ Is401Call
      /\ shouldRetryCall.returned = "true" )
    => inflight.headers.apiToken = apiToken

\* C2: for every retryCount >= 3 and every response, shouldRetry returns false
\* and calls no refresh.
C2_NoRetryFromThreeOn ==
    (shouldRetryCall.called /\ shouldRetryCall.retryCount >= 3)
    => (shouldRetryCall.returned = "false" /\ shouldRetryCall.refreshCalls = 0)

\* C3 (as claimed): for every 401 response shouldRetry calls refreshToken exactly
\* once and returns true iff the refresh response has not failed.
C3_Every401RefreshesOnce ==
    Is401Call =>
       /\ shouldRetryCall.refreshCalls = 1
       /\ shouldRetryCall.returned = "true" => ~hasFailed(shouldRetryCall.refreshStatus)
       /\ shouldRetryCall.returned = "false" => hasFailed(shouldRetryCall.refreshStatus)

\* the number of 401 answers that came at the limit of retries (no refresh)
UnrefreshedAtLimit ==
    IF Is401Call /\ shouldRetryCall.retryCount = NM_MAX_RETRY_COUNT THEN 1 ELSE 0

\* C3 (amended): for every 401 response and retryCount < 3 shouldRetry calls
\* refreshToken exactly once, and returns true if the refresh response has not
\* failed and false if it has; an operation started below the limit has called
\* refreshToken once per 401 answer received below the limit.
C3_401BelowLimitRefreshesOnce ==
    /\ (Is401Call /\ shouldRetryCall.retryCount < NM_MAX_RETRY_COUNT) =>
          /\ shouldRetryCall.refreshCalls = 1
          /\ shouldRetryCall.returned \in {"pending", "true", "false", "raised"}
          /\ shouldRetryCall.returned = "pending" => pc = "refresh"
          /\ shouldRetryCall.returned = "true" =>
                ~hasFailed(shouldRetryCall.refreshStatus)
          /\ shouldRetryCall.returned = "false" =>
                hasFailed(shouldRetryCall.refreshStatus)
    /\ (Is401Call /\ shouldRetryCall.retryCount = NM_MAX_RETRY_COUNT) =>
          (shouldRetryCall.refreshCalls = 0 /\ shouldRetryCall.returned = "false")
    /\ (Retrying /\ op.start <= NM_MAX_RETRY_COUNT) =>
          nRefresh = n401 - UnrefreshedAtLimit

C3_Witness ==
    /\ Is401Call
    /\ shouldRetryCall.retryCount < NM_MAX_RETRY_COUNT
    /\ shouldRetryCall.returned = "false"
    /\ hasFailed(shouldRetryCall.refreshStatus)
    /\ nRefresh = 1

\* what C4 says of 500 and 503, and of a status that is none of 401, 500, 503,
\* up to the outcome of the operation
C4_Policy ==
    /\ ( /\ shouldRetryCall.called
         /\ retriedStatus(shouldRetryCall.status)
         /\ shouldRetryCall.retryCount < 3 )
       => shouldRetryCall.returned = "true"
    /\ ( /\ shouldRetryCall.called
         /\ shouldRetryCall.status \notin {401, 500, 503} )
       => /\ shouldRetryCall.returned = "false"
          /\ shouldRetryCall.refreshCalls = 0
          /\ pc = "done"
          /\ nSends = shouldRetryCall.retryCount - op.start + 1
          /\ nRefresh = n401

\* C4 (as claimed): 500 and 503 are retried while retryCount < 3; after any status
\* that is none of 401, 500, 503 shouldRetry returns false, no refresh is
\* called and the operation returns that response.
C4_OtherStatusIsReturned ==
    /\ C4_Policy
    /\ ( /\ shouldRetryCall.called
         /\ shouldRetryCall.status \notin {401, 500, 503} )
       => result = OriginalResult(shouldRetryCall.status)
    /\ ( /\ pc = "done"
         /\ op.name = "genericDelete"
         /\ result.kind # "RequestFailedError" )
       => (nSends = 1 /\ nRefresh = 0 /\ result.kind = "response")

\* C4 (amended): as claimed, except that genericDownload raises RuntimeError in
\* place of returning an ok response when destination is a directory.
C4_OtherStatusEndsOperation ==
    /\ C4_Policy
    /\ ( /\ shouldRetryCall.called
         /\ shouldRetryCall.status \notin {401, 500, 503} )
       => IF op.name = "genericDownload" /\ rawOk(shouldRetryCall.status)
             /\ dest = "dir"
          THEN result = Raised("RuntimeError")
          ELSE result = OriginalResult(shouldRetryCall.status)
    /\ ( /\ pc = "done"
         /\ op.name = "genericDelete"
         /\ result.kind # "RequestFailedError" )
       => (nSends = 1 /\ nRefresh = 0 /\ result.kind = "response")

C4_Witness ==
    /\ shouldRetryCall.called
    /\ shouldRetryCall.status = 404
    /\ shouldRetryCall.retryCount = 1
    /\ op.start = 0
    /\ result = OriginalResult(404)

\* C5: every generic operation, genericDelete too, sends its request again
\* after 500 or 503 while retryCount < 3, and after 401 calls refreshToken.
C5_EveryOperationRetries ==
    ( /\ pc = "done"
      /\ op.name \in GenericOps
      /\ result.kind = "response" )
    => /\ retriedStatus(result.status) => op.retryCount >= NM_MAX_RETRY_COUNT
       /\ isUnauthorized(result.status) =>
             (op.retryCount >= NM_MAX_RETRY_COUNT \/ nRefresh >= 1)

\* a transport call makes at most 4 attempts, and RequestFailedError is raised
\* only after the fourth: a fifth attempt is never made
C6_AttemptsBounded ==
    /\ nAttempts <= 4
    /\ pc \in {"request", "refresh", "login"} => nAttempts = inflight.retryCount + 1
    /\ result.kind = "RequestFailedError" => (pc = "done" /\ nAttempts = 4)

\* C6: when every attempt of a transport call raises, exactly 4 attempts are
\* made and the call then raises RequestFailedError.
C6_FourAttemptsThenRequestFailedError ==
    /\ []C6_AttemptsBounded
    /\ [][TransportException =>
            IF nAttempts < 4
            THEN /\ nAttempts' = nAttempts + 1
                 /\ pc' = pc
                 /\ inflight' = [inflight EXCEPT !.retryCount = @ + 1]
                 /\ result'.kind = "none"
            ELSE /\ pc' = "done"
                 /\ nAttempts' = 4
                 /\ result' = Raised("RequestFailedError")]_vars

C6_Witness ==
    /\ result.kind = "RequestFailedError"
    /\ inflight.via = "post"
    /\ nAttempts = 4

\* C7: authenticate stores both tokens of a successful login response; a
\* generic call that then gets 401 once, a successful refresh and a successful
\* answer has called one refresh, has sent its request twice, the second time
\* with the new token, and returns the successful response.
C7_RefreshAndRetryScenario ==
    /\ ( /\ pc = "done"
         /\ op.name = "authenticate"
         /\ result.kind = "response"
         /\ ~hasFailed(result.status)
         /\ result.token # NoToken
         /\ result.refresh # NoToken )
       => (apiToken = result.token /\ refreshToken = result.refresh)
    /\ ( /\ pc = "done"
         /\ Retrying
         /\ op.start = 0
         /\ ~op.headersGiven
         /\ sessionAuth # NoAuth
         /\ refreshToken # NoToken
         /\ inflight.headers.apiToken # NoToken
         /\ n401 = 1
         /\ n5xx = 0
         /\ result.kind = "response"
         /\ ~hasFailed(result.status) )
       => /\ nRefresh = 1
          /\ nSends = 2
          /\ inflight.headers.apiToken = apiToken
          /\ result = OriginalResult(shouldRetryCall.status)

\* C8: after a refresh that a 401 triggered has failed, no access token and no
\* refresh token is stored (the call was made by an authenticated client: its
\* request carried the stored access token).
C8_FailedRefreshClearsCredentials ==
    ( /\ Is401Call
      /\ ~op.headersGiven
      /\ op.headers.apiToken # NoToken
      /\ shouldRetryCall.refreshCalls = 1
      /\ shouldRetryCall.returned = "false" )
    => (apiToken = NoToken /\ refreshToken = NoToken)

\* C9: when the refresh that a 401 triggered has failed, the operation returns
\* the 401 response of its own request and does not send the request again.
C9_FailedRefreshReturnsOriginal401 ==
    ( /\ Is401Call
      /\ shouldRetryCall.refreshCalls = 1
      /\ shouldRetryCall.returned = "false" )
    => /\ pc = "done"
       /\ result = OriginalResult(401)
       /\ op.retryCount = shouldRetryCall.retryCount
       /\ nSends = op.retryCount - op.start + 1
       /\ inflight.purpose = "refresh"

C9_Witness ==
    /\ Is401Call
    /\ shouldRetryCall.returned = "false"
    /\ shouldRetryCall.refreshStatus = 500
    /\ result = OriginalResult(401)

C11_Any5xxIsRetried ==
    ( /\ shouldRetryCall.called
      /\ shouldRetryCall.status \in 500..599
      /\ shouldRetryCall.retryCount < 3 )
    => shouldRetryCall.returned = "true"

\* C11 (amended): of the 5xx statuses only 500 and 503 are sent again, at most
\* 3 times for an operation started with retryCount 0; any other 5xx response
\* (502) ends the operation, which returns it.
C11_Only500And503AreRetried ==
    /\ ( /\ shouldRetryCall.called
         /\ shouldRetryCall.status \in {500, 503}
         /\ shouldRetryCall.retryCount < 3 )
       => /\ shouldRetryCall.returned = "true"
          /\ op.retryCount = shouldRetryCall.retryCount + 1
          /\ nSends = op.retryCount - op.start + 1
          /\ inflight.purpose = "request"
          /\ pc = "request" \/ result = Raised("RequestFailedError")
    /\ ( /\ shouldRetryCall.called
         /\ shouldRetryCall.status \in (500..599) \ {500, 503} )
       => /\ shouldRetryCall.returned = "false"
          /\ pc = "done"
          /\ op.retryCount = shouldRetryCall.retryCount
          /\ result = OriginalResult(shouldRetryCall.status)
    /\ (Retrying /\ op.start = 0) => (op.retryCount <= 3 /\ n5xx <= 4)

C11_Witness ==
    /\ shouldRetryCall.called
    /\ shouldRetryCall.status = 502
    /\ shouldRetryCall.retryCount = 0
    /\ nSends = 1
    /\ result = OriginalResult(502)

\* C12: whenever a request of a generic operation (called without explicit
\* headers) is on the wire, an access token is stored and the request
\* carries one.
C12_InflightRequestHasToken ==
    ( /\ pc = "request"
      /\ op.name \in GenericOps
      /\ ~op.headersGiven )
    => (apiToken # NoToken /\ inflight.headers.apiToken # NoToken)

\* C13: after reset() no access token, no refresh token and no Basic-auth pair
\* is stored, and the request built by the call that follows reset() carries
\* neither a token nor Basic credentials.
C13_ResetLeavesUnauthenticated ==
    /\ (pc = "idle" /\ op.name = "reset") =>
          (apiToken = NoToken /\ refreshToken = NoToken /\ sessionAuth = NoAuth)
    /\ ( /\ op.after = "reset"
         /\ op.name \in GenericOps \cup {"refreshToken"}
         /\ ~op.headersGiven
         /\ pc \in {"request", "refresh"}
         /\ nSends + nRefresh = 1 )
       => /\ inflight.headers.apiToken = NoToken
          /\ inflight.auth = NoAuth
          /\ apiToken = NoToken /\ refreshToken = NoToken /\ sessionAuth = NoAuth

C13_Witness ==
    /\ op.after = "reset"
    /\ op.name = "genericUpload"
    /\ pc = "request"
    /\ nSends = 1
    /\ inflight.retryCount = 1
    /\ inflight.headers = uploadHeader(NoToken)
    /\ inflight.auth = NoAuth

\* C14: a successful refresh response overwrites the stored access token with
\* its token; the stored refresh token stays when the response carries no
\* refresh token and is replaced by the one the response carries.
C14_RefreshStoresBothTokens ==
    [][\A s \in Status, t \in TokenOpt, r \in TokenOpt :
          (RefreshResponse(s, t, r) /\ ~hasFailed(s)) =>
             /\ t # NoToken => apiToken' = t
             /\ r = NoToken => refreshToken' = refreshToken
             /\ r # NoToken => refreshToken' = r]_vars

\* C15: a failed login response and a failed refresh response leave the stored
\* access token and refresh token as they were, whatever their JSON body holds.
C15_FailedResponseStoresNothing ==
    [][\A s \in Status, t \in TokenOpt, r \in TokenOpt :
          ((RefreshResponse(s, t, r) \/ LoginResponse(s, t, r)) /\ hasFailed(s)) =>
             (apiToken' = apiToken /\ refreshToken' = refreshToken)]_vars

\* what authenticate has done when it returned a response
C16_LoginReturned ==
    ( /\ pc = "done"
      /\ op.name = "authenticate"
      /\ result.kind = "response" )
    => /\ result.of = "login"
       /\ inflight.purpose = "login"
       /\ inflight.endpoint = "user/login"
       /\ nAttempts = inflight.retryCount + 1
       /\ nRefresh = 0
       /\ nSends = 0
       /\ ~shouldRetryCall.called

\* C16: the response to the login request, whatever its status, ends
\* authenticate, which returns it as it is: the login request is not sent again
\* after a response (it was sent once, plus once per transport exception before
\* it) and no refresh is called.
C16_LoginAnsweredOnce ==
    /\ []C16_LoginReturned
    /\ [][\A s \in Status, t \in TokenOpt, r \in TokenOpt :
            LoginResponse(s, t, r) =>
               /\ pc' = "done"
               /\ result' = Returned("login", s, t, r)
               /\ inflight' = inflight
               /\ nAttempts' = nAttempts
               /\ nRefresh' = 0]_vars

C16_Witness ==
    /\ pc = "done"
    /\ op.name = "authenticate"
    /\ result.kind = "response"
    /\ result.status = 401
    /\ nAttempts = 1
    /\ sessionAuth # NoAuth

\* C17: a successful run() has issued exactly ceil(F/C) chunk uploads; their
\* ranges [start_i, end_i) have start_i = i*C and end_i = min(start_i + C, F),
\* are non-empty, begin at 0, each begins where the one before ends, and the
\* last ends at F; C = 16 MiB and F = 40 MiB give the 3 ranges [0,16Mi),
\* [16Mi,32Mi), [32Mi,40Mi).
C17_ChunkPartitionLaw ==
    session.pc = "returned" =>
       LET F == session.fileSize
           C == session.chunkSize
           n == Len(uploads)
       IN /\ n = ceilDiv(F, C)
          /\ \A k \in 1..n :
                /\ rangeStart(k) = (k - 1) * C
                /\ rangeEnd(k) = min(rangeStart(k) + C, F)
                /\ rangeStart(k) < rangeEnd(k)
                /\ rangeStart(k) = IF k = 1 THEN 0 ELSE rangeEnd(k - 1)
          /\ (IF n = 0 THEN 0 ELSE rangeEnd(n)) = F
          /\ (C = 16 * MiB /\ F = 40 * MiB) =>
                <<rangeStart(1), rangeEnd(1), rangeStart(2), rangeEnd(2),
                  rangeStart(3), rangeEnd(3)>>
                   = <<0, 16 * MiB, 16 * MiB, 32 * MiB, 32 * MiB, 40 * MiB>>

C17_Witness ==
    /\ session.pc = "returned"
    /\ session.chunkSize = 16 * MiB
    /\ session.fileSize = 40 * MiB
    /\ Len(uploads) = 3

\* the chunk uploads of the run that have been started and have not returned
C18_InFlight == Len(uploads) - session.succeeded

\* C18: the chunk uploads of a run() are started in increasing order of their
\* offsets and at most one of them is in flight; a chunk upload is started
\* only when the start call has returned the uploadId and every chunk upload
\* started before it has returned a successful response.
C18_OneChunkAtATimeInOrder ==
    /\ [](/\ \A k \in 1..(Len(uploads) - 1) : rangeStart(k) < rangeStart(k + 1)
          /\ C18_InFlight \in {0, 1}
          /\ C18_InFlight = 1 => session.pc \in {"uploading", "failed"}
          /\ session.pc = "starting" => uploads = <<>>)
    /\ [][Len(uploads') > Len(uploads) =>
             /\ Len(uploads') = Len(uploads) + 1
             /\ pc = "idle"
             /\ isStr(session.uploadId)
             /\ uploads'[Len(uploads')].id = session.uploadId
             /\ session.succeeded = Len(uploads)]_vars

C18_Witness ==
    /\ session.pc = "uploading"
    /\ pc = "request"
    /\ Len(uploads) = 3
    /\ session.succeeded = 2

\* a chunk upload of the run has ended with a failed response
C19_ChunkFailed ==
    /\ session.pc = "uploading"
    /\ pc = "done"
    /\ result.kind = "response"
    /\ hasFailed(result.status)

\* C19: run() returns the uploadId only when each of the ceil(F/C) chunk
\* uploads has returned a successful response; when a chunk upload ends with
\* a failed response, run() raises NetworkRequestError, and that run uploads
\* no further chunk.
C19_AllChunksOrNetworkRequestError ==
    /\ [](session.pc = "returned" =>
             /\ isStr(session.uploadId)
             /\ session.succeeded = ceilDiv(session.fileSize, session.chunkSize)
             /\ Len(uploads) = session.succeeded)
    /\ [][C19_ChunkFailed =>
             /\ session'.pc = "failed"
             /\ session'.error = "NetworkRequestError"
             /\ uploads' = uploads]_vars
    /\ [][session.pc = "failed" => (uploads' = uploads \/ uploads' = <<>>)]_vars

C19_Witness ==
    /\ session.pc = "failed"
    /\ session.error = "NetworkRequestError"
    /\ Len(uploads) = 2
    /\ session.succeeded = 1
    /\ ceilDiv(session.fileSize, session.chunkSize) = 3

\* the start call of the run has returned a response
C20_StartAnswered ==
    /\ session.pc = "starting"
    /\ pc = "done"
    /\ result.kind = "response"

\* C20: when the upload/start call ends with a failed response, run() raises
\* NetworkRequestError; when it ends with a successful response whose "id"
\* is missing or not a string, run() raises ValueError; in both cases the run
\* has issued one start call and no chunk upload, and issues none afterwards.
C20_FailedStartEndsTheRun ==
    /\ [][C20_StartAnswered =>
             /\ hasFailed(result.status) =>
                   /\ session'.pc = "failed"
                   /\ session'.error = "NetworkRequestError"
             /\ (~hasFailed(result.status) /\ ~isStr(session'.uploadId)) =>
                   /\ session'.pc = "failed"
                   /\ session'.error = "ValueError"
             /\ session'.pc = "failed" =>
                   (uploads' = <<>> /\ session'.starts = 1 /\ pc' = "idle")]_vars
    /\ [][(session.pc = "failed" /\ pc' = "request") =>
             \* the next request is the start call of another run()
             /\ session'.pc = "starting"
             /\ inflight'.endpoint = "upload/start"
             /\ uploads' = <<>>]_vars
    /\ [](session.pc = "failed" /\ session.error = "ValueError" =>
             uploads = <<>> /\ session.starts = 1)

C20_Witness ==
    /\ session.pc = "failed"
    /\ session.error = "ValueError"
    /\ session.uploadId = NotAString
    /\ session.starts = 1
    /\ uploads = <<>>

\* C21: the payload of every chunk upload of a run() has the length of the
\* byte range [start, end] declared for it, whatever the length of the file
\* is when the chunk is read.
C21_PayloadHasDeclaredLength ==
    \A k \in 1..Len(uploads) :
       uploads[k].length = uploads[k].end - uploads[k].start + 1

\* C22: every chunk upload of a run() carries the uploadId that the start
\* call of that run returned, start = i*C and end = min(i*C + C, F) - 1; the
\* size sent to upload/start is the fileSize recorded at construction, and
\* the last chunk of a run that returned ends there.
C22_ChunksTaggedWithIdAndRange ==
    /\ \A k \in 1..Len(uploads) :
          /\ isStr(session.uploadId)
          /\ uploads[k].id = session.uploadId
          /\ uploads[k].start = (k - 1) * session.chunkSize
          /\ uploads[k].end =
                min((k - 1) * session.chunkSize + session.chunkSize,
                    session.fileSize) - 1
    /\ session.pc \in {"starting", "loop", "uploading", "returned", "failed"} =>
          session.sizeSent = session.fileSize
    /\ (session.pc = "returned" /\ uploads # <<>>) =>
          uploads[Len(uploads)].end + 1 = session.sizeSent
    /\ (session.pc = "uploading" /\ inflight.purpose = "request") =>
          /\ inflight.endpoint = "upload/chunk"
          /\ inflight.body.id = session.uploadId

C22_Witness ==
    /\ session.pc = "returned"
    /\ session.uploadId = MaxUploadId
    /\ Len(uploads) = 2
    /\ session.fileSize = 3
    /\ uploads[2].end = 2

\* the genericUpload call of a chunk has ended with a successful response
C23_ChunkSucceeded ==
    /\ session.pc = "uploading"
    /\ pc = "done"
    /\ result.kind = "response"
    /\ ~hasFailed(result.status)

\* C23: a chunk upload is a genericUpload call with the client's policy: with
\* fewer than 3 retries made it does not return 500 or 503, nor 401 unless
\* the refresh failed; every send of the chunk carries the uploadId, start,
\* end and payload of its first send; a chunk upload that returns a
\* successful response, after retries too, lets run() go on, and no other
\* chunk is uploaded while it is going on.
C23_ChunkInheritsRetryPolicy ==
    /\ []((session.pc = "uploading" /\ pc = "request") =>
             /\ inflight.endpoint = "upload/chunk"
             /\ inflight.body = uploads[Len(uploads)]
             /\ nSends = op.retryCount + 1)
    /\ []((session.pc = "uploading" /\ pc = "done" /\ result.kind = "response"
             /\ op.retryCount < NM_MAX_RETRY_COUNT) =>
             /\ ~retriedStatus(result.status)
             /\ isUnauthorized(result.status) =>
                   hasFailed(shouldRetryCall.refreshStatus))
    /\ [][C23_ChunkSucceeded =>
             /\ session'.pc \in {"loop", "returned"}
             /\ session'.succeeded = session.succeeded + 1]_vars
    /\ [][pc # "idle" => uploads' = uploads]_vars

C23_Witness ==
    /\ C23_ChunkSucceeded
    /\ nSends = 4
    /\ n401 >= 1
    /\ n5xx >= 1
    /\ inflight.body = uploads[Len(uploads)]
    /\ Len(uploads) = 2

\* C24: the constructor raises ValueError exactly for chunkSize <= 0 and for
\* chunkSize > 134217728; it has then read no file size and sent no request;
\* a chunkSize in 1..134217728 passes the test.
C24_ChunkSizeValidation ==
    /\ session.pc \in {"invalid", "constructed"} =>
          (session.error = "ValueError"
              <=> (session.chunkSize < 1 \/ session.chunkSize > 134217728))
    /\ session.pc = "constructed" => session.error = "none"
    /\ session.pc = "invalid" =>
          /\ session.fileSize = 0
          /\ session.starts = 0
          /\ uploads = <<>>
          /\ pc = "idle"
          /\ inflight = NoRequest

C24_Witness ==
    /\ session.pc = "constructed"
    /\ session.chunkSize = 134217728

\* C25: a genericDownload whose destination is a directory raises
\* RuntimeError when its last response is ok, after the GET request was sent,
\* and the directory is left as it is; RuntimeError has no other cause.
C25_DirectoryDestinationRaises ==
    /\ ( /\ pc = "done"
         /\ op.name = "genericDownload"
         /\ dest = "dir"
         /\ shouldRetryCall.called
         /\ result.kind # "RequestFailedError"
         /\ shouldRetryCall.returned = "false"
         /\ shouldRetryCall.status < 400 )
       => result = Raised("RuntimeError")
    /\ result = Raised("RuntimeError") =>
          /\ op.name = "genericDownload"
          /\ dest = "dir"
          /\ nSends >= 1
          /\ shouldRetryCall.status < 400

C25_Witness ==
    /\ result = Raised("RuntimeError")
    /\ dest = "dir"
    /\ nSends = 2
    /\ n5xx = 1

\* a step of a genericDownload that is going on
C26_DownloadStep == op.name = "genericDownload" /\ pc \in {"request", "refresh"}

\* the step ends the download with an ok response
C26_EndsOk ==
    /\ pc' = "done"
    /\ result'.kind = "response"
    /\ result'.status < 400

\* C26: genericDownload changes destination only in the step that returns
\* an ok response: a response that is retried, a failed last response and an
\* exception leave destination as it was; with an ok last response an absent
\* destination becomes the new file, and an existing one is removed first
\* and then becomes the new file.
C26_WritesOnlyOkFinalResponse ==
    [][C26_DownloadStep =>
         IF C26_EndsOk
         THEN dest \in {"absent", "oldfile"} /\ dest' = "newfile"
         ELSE dest' = dest]_vars

C26_Witness ==
    /\ pc = "done"
    /\ op.name = "genericDownload"
    /\ result.kind = "response"
    /\ result.status = 404
    /\ nSends = 2
    /\ dest = "oldfile"

\* a generic operation that was started with retryCount 0 is going on
C27_Started ==
    /\ op.name \in GenericOps
    /\ op.start = 0
    /\ pc \in {"request", "refresh"}

\* C27: a generic operation started with retryCount 0 sends its request at
\* most 4 times, each time with at most 4 attempts, refreshes at most 3
\* times, and ends; it ends with a response, with RequestFailedError or with
\* RuntimeError, whatever the server and the network do.
C27_OperationTerminates ==
    /\ [](C27_Started =>
             /\ nSends <= NM_MAX_RETRY_COUNT + 1
             /\ nAttempts <= RM_MAX_RETRY_COUNT + 1
             /\ nRefresh <= NM_MAX_RETRY_COUNT)
    /\ []((pc = "done" /\ op.name \in GenericOps /\ op.start = 0) =>
             result.kind \in {"response", "RequestFailedError", "RuntimeError"})
    /\ (C27_Started ~> pc = "done")

\* C28: the pair that authenticate installs with setAuth goes with every
\* request sent afterwards, the login request, generic requests and refresh
\* requests included; it changes only when authenticate installs another
\* pair or reset() clears it, so it stays whatever the login response is.
C28_BasicAuthOnEveryRequest ==
    /\ [](pc \in {"request", "refresh", "login"} => inflight.auth = sessionAuth)
    /\ [](pc = "login" => sessionAuth # NoAuth)
    /\ [][sessionAuth' # sessionAuth =>
             /\ pc = "idle"
             /\ \/ op'.name = "authenticate" /\ sessionAuth' \in LoginUsers
                \/ op'.name = "reset" /\ sessionAuth' = NoAuth]_vars
    /\ [][(pc = "idle" /\ op'.name = "reset") => sessionAuth' = NoAuth]_vars
    /\ [][(pc = "login" /\ pc' = "done") => sessionAuth' = sessionAuth]_vars

C28_Witness ==
    /\ op.name = "genericJSONRequest"
    /\ pc = "refresh"
    /\ apiToken = NoToken
    /\ sessionAuth = MaxUser + 1
    /\ inflight.auth = MaxUser + 1
    /\ inflight.retryCount = 1

\* C29: nothing serializes the threads of one client; in particular, when
\* reset() runs during a call, a request that the call sends again afterwards
\* is built from the cleared credentials: it carries no token.
C29_RetryAfterResetIsBuiltFromClearedCredentials ==
    \A t \in Threads :
       (threads[t].pc = "request" /\ threads[t].retryCount > 0 /\ threads[t].cleared)
          => threads[t].sent.apiToken = NoToken

\* two refresh requests are on the wire at once
C29_TwoRefreshes == \A t \in Threads : threads[t].pc = "refresh"

\* the last call of unzip has removed what was extracted and extracted again
C30_UnzippedAgain ==
    /\ Len(sample.log) >= 1
    /\ sample.log[1] = "rmtree"
    /\ sample.outcome = "extracted" => sample.path = "fresh"
    /\ sample.outcome # "returned"

C31_ResponseStep ==
    \/ \E s \in Status : OriginalResponse(s)
    \/ \E s \in Status, t \in TokenOpt, r \in TokenOpt : RefreshResponse(s, t, r)
    \/ \E s \in Status, t \in TokenOpt, r \in TokenOpt : LoginResponse(s, t, r)

\* the step is a retry of the transport: the call on the wire is tried again
C31_TransportRetry == inflight'.retryCount = inflight.retryCount + 1

\* C31: the transport retries only on exceptions.  A response, whatever its
\* status, ends its transport call: the step that receives it is no retry of
\* the transport and raises no RequestFailedError; and a retry of the
\* transport issues the same call, with the method, endpoint, headers, data
\* and files of the attempt that raised.
C31_TransportRetriesOnlyExceptions ==
    [][/\ C31_ResponseStep =>
            /\ ~C31_TransportRetry
            /\ result'.kind # "RequestFailedError"
            /\ nAttempts' \in {nAttempts, 1}
       /\ C31_TransportRetry =>
            /\ ~C31_ResponseStep
            /\ pc' = pc
            /\ nAttempts' = nAttempts + 1
            /\ inflight'.purpose = inflight.purpose
            /\ inflight'.via = inflight.via
            /\ inflight'.method = inflight.method
            /\ inflight'.endpoint = inflight.endpoint
            /\ inflight'.headers = inflight.headers
            /\ inflight'.body = inflight.body]_vars

\* a response with status 401 came after one exception and was returned
C31_Witness ==
    /\ pc = "done"
    /\ op.name = "genericDelete"
    /\ result.kind = "response"
    /\ result.status = 401
    /\ inflight.retryCount = 1
    /\ nAttempts = 2
    /\ nSends = 1

\* the refresh request on the wire: a post to the refresh endpoint that
\* carries the stored refresh token when there is one
C32_RefreshRequest ==
    pc = "refresh" =>
       /\ inflight.purpose = "refresh"
       /\ inflight.via = "genericRequest"
       /\ inflight.method = "post"
       /\ inflight.endpoint = "user/refresh"
       /\ refreshToken # NoToken => inflight.headers.apiToken = refreshToken

\* the answer to a refresh request starts no refresh and is not followed by
\* the refresh request again; a failed answer ends the operation
C32_RefreshAnswer ==
    \A s \in Status, t \in TokenOpt, r \in TokenOpt :
       RefreshResponse(s, t, r) =>
          /\ nRefresh' = nRefresh
          /\ pc' # "refresh"
          /\ shouldRetryCall'.refreshCalls = shouldRetryCall.refreshCalls
          /\ hasFailed(s) => /\ pc' = "done"
                             /\ inflight' = inflight
                             /\ nSends' = nSends

\* C32: the request of refreshToken() carries the stored refresh token, not
\* the access token, whenever a refresh token is stored, and goes to the
\* refresh endpoint; its answer is never handed to shouldRetry: a 401 or a
\* 5xx answer to a refresh starts no nested refresh and no re-send.
C32_RefreshCarriesRefreshTokenAndIsNotRetried ==
    []C32_RefreshRequest /\ [][C32_RefreshAnswer]_vars

\* a refresh that carried a refresh token other than the access token was
\* answered with 401 and the operation ended
C32_Witness ==
    /\ pc = "done"
    /\ op.name = "genericJSONRequest"
    /\ inflight.purpose = "refresh"
    /\ refreshToken # NoToken
    /\ apiToken # NoToken
    /\ refreshToken # apiToken
    /\ inflight.headers.apiToken = refreshToken
    /\ shouldRetryCall.refreshStatus = 401
    /\ nRefresh = 1

\* the traffic of one generic operation started with retryCount 0
C33_Bounds ==
    op.name \in GenericOps =>
       /\ nSends <= NM_MAX_RETRY_COUNT + 1
       /\ nRefresh <= NM_MAX_RETRY_COUNT
       /\ nRefresh <= n401
       /\ nAttempts <= RM_MAX_RETRY_COUNT + 1
       /\ nWire <= (NM_MAX_RETRY_COUNT + 1) * (RM_MAX_RETRY_COUNT + 1)
       /\ nWire <= nSends * (RM_MAX_RETRY_COUNT + 1)

\* a send of the original request and a refresh start the transport at 0,
\* and the answer to the fourth send starts no refresh
C33_TransportStartsAgain ==
    /\ (nSends' = nSends + 1 \/ nRefresh' = nRefresh + 1) =>
          (inflight'.retryCount = 0 /\ nAttempts' = 1)
    /\ (pc = "request" /\ nSends = NM_MAX_RETRY_COUNT + 1) =>
          (nRefresh' = nRefresh /\ nSends' = nSends /\ pc' \in {"request", "done"})

\* C33: one generic operation started with retryCount 0 sends the original
\* request at most 4 times and refreshes at most 3 times (a 401 on the
\* fourth send starts no refresh); the transport counts from 0 again for
\* every send and every refresh, so that the original request is attempted
\* at most 16 times.
C33_TrafficIsBounded == []C33_Bounds /\ [][C33_TransportStartsAgain]_vars

\* four sends of four attempts each, the first three answered with 401 and
\* followed by a refresh, the fourth answered with 401 and returned
C33_Witness ==
    /\ pc = "done"
    /\ op.name \in RetryingOps
    /\ nWire = 16
    /\ nSends = 4
    /\ nRefresh = 3
    /\ n401 = 4
    /\ result.kind = "response"
    /\ result.status = 401

\* a refresh inside a generic operation answers a 401
C34_RefreshFollows401 ==
    (pc = "refresh" /\ op.name \in GenericOps) =>
       /\ shouldRetryCall.status = unauthorized
       /\ n401 >= 1

\* the step belongs to authenticate, authenticateWithRefreshToken, a
\* refresh or reset
C34_CredentialStep ==
    \/ pc = "idle" /\ op'.name \in {"authenticate", "authenticateWithRefreshToken", "reset"}
    \/ pc = "login"
    \/ pc = "refresh"

\* a step of a generic operation that has received no 401 changes no
\* credential, and a credential changes only in a step of authenticate,
\* refresh or reset
C34_Frame ==
    /\ ((op.name \in GenericOps \/ op'.name \in GenericOps) /\ n401' = 0) =>
          (apiToken' = apiToken /\ refreshToken' = refreshToken
             /\ sessionAuth' = sessionAuth)
    /\ (apiToken' # apiToken \/ refreshToken' # refreshToken
          \/ sessionAuth' # sessionAuth) => C34_CredentialStep

\* C34: a generic operation none of whose attempts receives a 401 leaves the
\* access token, the refresh token and the Basic-auth pair as they were,
\* whatever its outcome; the credentials change only through authenticate,
\* refresh (called or triggered by a 401) and reset.
C34_GenericOperationsKeepCredentials ==
    []C34_RefreshFollows401 /\ [][C34_Frame]_vars

\* a genericUpload of an authenticated client ended after four answers with
\* 500 and no 401
C34_Witness ==
    /\ pc = "done"
    /\ op.name = "genericUpload"
    /\ n401 = 0
    /\ n5xx = 4
    /\ result.kind = "response"
    /\ apiToken # NoToken
    /\ refreshToken # NoToken
    /\ sessionAuth # NoAuth

\* a session on an empty file
C35_EmptyFile ==
    /\ session.pc \in {"constructed", "starting", "loop", "uploading", "returned", "failed"}
    /\ session.fileSize = 0

\* on an empty file run() is never in its loop and uploads nothing; the start
\* call carries the size 0; what run() returns is a str
C35_NoChunk ==
    C35_EmptyFile =>
       /\ session.pc \notin {"loop", "uploading"}
       /\ uploads = <<>>
       /\ session.succeeded = 0
       /\ session.starts >= 1 => session.sizeSent = 0
       /\ session.pc = "returned" => isStr(session.uploadId)

\* the step that has the outcome of the start call ends run(): it returns the
\* id of an ok start response, and raises otherwise
C35_StartEndsRun ==
    (C35_EmptyFile /\ session.pc = "starting" /\ session'.pc # "starting") =>
       IF result.kind = "response" /\ ~hasFailed(result.status)
            /\ isStr(session'.uploadId)
       THEN session'.pc = "returned"
       ELSE session'.pc = "failed" /\ session'.error # "none"

\* C35: for a file of size 0, run() issues the start call with size 0,
\* issues no chunk upload at all, and returns the uploadId of the start
\* response.
C35_EmptyFileUploadsNoChunk == []C35_NoChunk /\ [][C35_StartEndsRun]_vars

C35_Witness ==
    /\ session.pc = "returned"
    /\ session.fileSize = 0
    /\ session.chunkSize = 16 * MiB
    /\ session.sizeSent = 0
    /\ session.starts = 1
    /\ session.uploadId = MaxUploadId
    /\ uploads = <<>>

\* while authenticateWithRefreshToken runs and after it ended: the token on
\* the one refresh request it sent is the stored refresh token
C36_GivenTokenIsStoredAndSent ==
    op.name = "authenticateWithRefreshToken" =>
       /\ refreshToken # NoToken
       /\ inflight.purpose = "refresh"
       /\ inflight.endpoint = "user/refresh"
       /\ inflight.headers.apiToken = refreshToken
       /\ nRefresh = 1
       /\ nSends = 0
       /\ pc = "done" =>
             \/ result.kind = "RequestFailedError"
             \/ /\ result.kind = "response"
                /\ result.token # NoToken => apiToken = result.token

\* the call itself leaves the access token alone, and so does every step but
\* the one that receives the refresh response, which stores the token of
\* that response; no step after the call changes the refresh token
C36_Step ==
    /\ (pc = "idle" /\ op'.name = "authenticateWithRefreshToken") =>
          apiToken' = apiToken
    /\ (op.name = "authenticateWithRefreshToken" /\ pc = "refresh") =>
          /\ refreshToken' = refreshToken
          /\ apiToken' # apiToken =>
                /\ pc' = "done"
                /\ result'.kind = "response"
                /\ result'.of = "refresh"
                /\ apiToken' = result'.token

\* C36: authenticateWithRefreshToken(token) stores the given token as the
\* refresh token before the refresh request is sent and sends exactly one
\* refresh request carrying it; the given token remains the stored refresh
\* token afterwards whether the refresh succeeded or failed, and the access
\* token is set only from the refresh response.
C36_AuthenticateWithRefreshToken ==
    []C36_GivenTokenIsStoredAndSent /\ [][C36_Step]_vars

\* a client that held tokens was given another refresh token, the refresh
\* failed with 401 and brought no token
C36_Witness ==
    /\ pc = "done"
    /\ op.name = "authenticateWithRefreshToken"
    /\ result.kind = "response"
    /\ result.status = 401
    /\ result.token = NoToken
    /\ result.refresh # NoToken
    /\ result.refresh # refreshToken
    /\ apiToken # NoToken
    /\ apiToken # refreshToken

\* how often the last call of unzip did what to the file system
C37_Count(what) == Cardinality({i \in 1..Len(sample.log) : sample.log[i] = what})

\* the first extraction raised BadZipFile: the zip file was deleted, then
\* download() was called, both once, and __unzipSample was called once more
C37_Recovered ==
    /\ sample.unzips = 2
    /\ C37_Count("unlink") = 1
    /\ C37_Count("download") = 1
    /\ \E i \in 1..(Len(sample.log) - 1) :
          /\ sample.log[i] = "unlink"
          /\ sample.log[i + 1] = "download"
          /\ \A j \in 1..(i - 1) : sample.log[j] = "rmtree"
          /\ \A j \in (i + 2)..Len(sample.log) : sample.log[j] = "extractall"

C38_Copies(lines) ==
    Cardinality({i \in 1..Len(lines) : \E c \in ConfigDirs : lines[i] = jobLine(c)})

\* C38: once scheduleJob(configDir, script) has installed its entry,
\* jobExists(script) is true, so that every later scheduleJob(configDir,
\* script) returns without changing the crontab and the crontab never holds
\* more than one copy of the update entry; scheduleJob keeps every line that
\* was there, in order, ahead of the entry it appends.
C38_ScheduleJobIsIdempotent ==
    [][(cron'.calls = cron.calls + 1 /\ cron'.outcome # "ValueError") =>
          /\ cron'.outcome = "installed" =>
                /\ jobExists(cron'.lines, cron'.script)
                /\ cron'.lines = getExisting(cron.lines) \o cronEntry(cron'.configDir)
          /\ C38_Copies(cron.lines) >= 1 => cron'.lines = cron.lines
          /\ C38_Copies(cron'.lines) <= 1]_vars

\* C39: selectModelId, started with retryCount 0, prompts for a model id and
\* calls Model.fetchById at most 3 times; after 3 failed fetches in a row it
\* ends with RuntimeError without a fourth prompt; it downloads the model and
\* returns its id only after a fetch succeeded.
C39_AtMostThreePrompts ==
    /\ Len(select.prompted) <= 3
    /\ select.fetches = Len(select.prompted)
    /\ select.pc = "fetching" => select.retryCount = Len(select.prompted) - 1
    /\ select.outcome = "RuntimeError" =>
          /\ select.pc = "done"
          /\ Len(select.prompted) = 3
          /\ ~select.fetched
          /\ select.downloads = 0
    /\ select.downloads <= 1
    /\ select.downloads = 1 => select.fetched
    /\ select.outcome = "returned" =>
          /\ select.fetched
          /\ select.downloads = 1
          /\ select.modelId = select.prompted[Len(select.prompted)]
    /\ (select.pc = "done" /\ ~select.fetched) => select.outcome = "RuntimeError"

\* three fetches failed and selectModelId ended with RuntimeError
C39_Witness ==
    /\ select.pc = "done"
    /\ select.outcome = "RuntimeError"
    /\ select.prompted = <<1, 2, MaxModelId>>
    /\ select.fetches = 3

\* the place of a call in the log of the last initializeNodeConfiguration(),
\* 0 when it was not made
C40_At(what) ==
    IF \E i \in 1..Len(node.log) : node.log[i] = what
    THEN CHOOSE i \in 1..Len(node.log) : node.log[i] = what
    ELSE 0

\* what the last initializeNodeConfiguration() did
C40_Order ==
    node.calls > 0 =>
       /\ ~node.whileRunning
       /\ node.wasConfigured =>
             node.log = <<"loadConfig", "validateConfiguration">>
       /\ (~node.wasConfigured /\ node.wasRunning) =>
             \/ /\ node.answer = "no"
                /\ node.log = <<"loadConfig", "clickPrompt">>
                /\ node.outcome = "returned"
             \/ /\ node.answer = "yes"
                /\ C40_At("stop") > 0
                /\ C40_At("configureNode") > 0 => C40_At("stop") < C40_At("configureNode")
                /\ C40_At("configureNode") = 0 => node.outcome = "NodeException"
       /\ C40_At("saveConfig") > 0 =>
             /\ C40_At("configureNode") = C40_At("saveConfig") - 1
             /\ node.outcome = "returned"
       /\ (C40_At("configureNode") > 0 /\ C40_At("saveConfig") = 0) =>
             node.outcome = "raised"

\* a call on a configured node and a call that the user declines change
\* nothing; a call changes the configuration only by saveConfig and stops
\* the container only by stop()
C40_Changes ==
    node'.calls = node.calls + 1 =>
       /\ (node.configured \/ node'.answer = "no") =>
             /\ node'.configured = node.configured
             /\ node'.saved = node.saved
             /\ node'.running = node.running
       /\ (node'.configured # node.configured \/ node'.saved # node.saved) =>
             node'.log[Len(node'.log)] = "saveConfig"
       /\ node'.running # node.running =>
             \E i \in 1..Len(node'.log) : node'.log[i] = "stop"

\* C40: initializeNodeConfiguration never configures or saves while the
\* container of the node is left running: on a configured node it validates
\* and changes nothing; on a node that is not configured and runs it stops
\* the node before configureNode and saveConfig, or, when the user declines,
\* returns without stop, configureNode and saveConfig; saveConfig is called
\* only after configureNode returned.
C40_NoConfigurationWhileRunning == []C40_Order /\ [][C40_Changes]_vars

\* the node ran and was not configured, the user agreed, and the node was
\* stopped, configured and saved
C40_Witness ==
    /\ node.wasRunning
    /\ ~node.wasConfigured
    /\ node.answer = "yes"
    /\ node.log = <<"loadConfig", "clickPrompt", "stop", "configureNode", "saveConfig">>
    /\ node.configured
    /\ ~node.running
    /\ node.saved = MaxNodeName

=============================================================================
